---- MODULE Spec2Model ----
(***************************************************************************)
(* Verification model of the narrative-intelligence library:               *)
(*   - the unified narrative state ("ledger") and its operations           *)
(*     (schemas/unified_state_bridge.ts),                                  *)
(*   - the three-universe processor (graphs/three_universe_processor.ts),  *)
(*   - the narrative coherence engine (graphs/coherence_engine.ts).        *)
(*                                                                         *)
(* Numbers.  arcPosition, strength and the deltas added to them are        *)
(* fixed-point tenths (1.0 is 10).  Confidences, keyword scores and        *)
(* dramatic tension are fixed-point hundredths or exact fractions, see     *)
(* the sections that use them.                                             *)
(***************************************************************************)
EXTENDS Integers, Sequences, FiniteSets, TLC

VARIABLES
    ledger,     \* the UnifiedNarrativeState object the ledger operations mutate
    clock,      \* the wall clock read by new Date()
    last,       \* the last ledger call: its name, arguments and return value
    thrown,     \* TRUE when the last call raised an exception
    tus,        \* the ThreeUniverseState handed from analyzer to analyzer
    engine,     \* the NarrativeCoherenceEngine instance and its last result
    manager,    \* the NarrativeRedisManager instance and the store behind it
    calls,      \* the calls of the manager's methods under way, each with its position
    history     \* what the calls of the manager's methods made so far have met

vars == <<ledger, clock, last, thrown, tus, engine, manager, calls, history>>

Undefined == "undefined"

\* An optional object: Absent when the property is undefined, Some(x) when it
\* holds the object x.
Absent == <<>>
Some(x) == <<x>>

\* new NarrativeRedisManager(): no client yet
NarrativeRedisManager == [redis |-> Absent, connected |-> FALSE]

Max(a, b) == IF a >= b THEN a ELSE b
Min(a, b) == IF a <= b THEN a ELSE b

\* The number num/den, kept exact where the code divides.
Fraction(num, den) == [num |-> num, den |-> den]

(***************************************************************************)
(* Bounds of the model.                                                    *)
(***************************************************************************)
MaxBeats == 2           \* beats in the ledger of SpecBeats
MaxEpisodeBeats == 13   \* beats in the ledger of SpecEpisode
MaxGrowth == 2          \* growth points over all characters in SpecArc
MaxClock == 1           \* ticks of the wall clock in SpecArc
MaxN == 3               \* largest n passed to getLastNBeats
MaxDecisions == 22      \* routing decisions in the ledger of SpecCoherence
MaxCoherent == 1        \* of them, decisions of high coherence

(***************************************************************************)
(* Enumerations of unified_state_bridge.ts.                                *)
(***************************************************************************)
Universe == {"engineer", "ceremony", "story_engine"}

NarrativeFunction ==
    {"inciting_incident", "rising_action", "turning_point", "complication",
     "crisis", "climax", "resolution", "denouement", "beat"}

(***************************************************************************)
(* Program constants, in tenths.                                           *)
(***************************************************************************)
ArcCeiling == 10        \* Math.min(1.0, ...) in updateCharacterArc
StrengthCeiling == 10   \* Math.min(1.0, ...) in updateThemeStrength
StrengthFloor == 0      \* Math.max(0.0, ...) in updateThemeStrength
DefaultArcPosition == 0 \* options.arcPosition ?? 0.0
DefaultStrength == 5    \* options.strength ?? 0.5
DefaultCoherence == 5   \* overallCoherence: 0.5
EpisodeLimit == 12      \* state.episodeBeatsCount >= 12

(***************************************************************************)
(* JavaScript helpers.                                                     *)
(***************************************************************************)
\* Array.prototype.slice(start) with one argument.
ArraySlice(arr, start) ==
    LET len  == Len(arr)
        from == IF start < 0 THEN Max(len + start, 0) ELSE Min(start, len)
    IN  SubSeq(arr, from + 1, len)

\* Property names every object literal inherits from Object.prototype; the
\* inherited values are functions or objects, hence truthy.
ObjectPrototypeKeys ==
    {"constructor", "toString", "toLocaleString", "valueOf", "hasOwnProperty",
     "isPrototypeOf", "propertyIsEnumerable", "__defineGetter__",
     "__defineSetter__", "__lookupGetter__", "__lookupSetter__", "__proto__"}

\* obj[key] on an object literal finds the own property, else the inherited
\* one, else undefined.
GetProperty(obj, key) ==
    IF key \in DOMAIN obj THEN "own"
    ELSE IF key \in ObjectPrototypeKeys THEN "inherited"
    ELSE Undefined

(***************************************************************************)
(* createNarrativePosition, createCharacterState, createThematicThread,    *)
(* getDefaultCharacters, getDefaultThemes, createUnifiedNarrativeState.    *)
(***************************************************************************)
createNarrativePosition ==
    [act |-> 1, phase |-> "setup", currentBeatId |-> Undefined, beatCount |-> 0,
     leadUniverse |-> "story_engine"]

createCharacterState(universe) ==
    [universe |-> universe, arcPosition |-> DefaultArcPosition, growthPoints |-> <<>>]

createThematicThread == [strength |-> DefaultStrength]

getDefaultCharacters ==
    [id \in {"the-builder", "the-keeper", "the-weaver"} |->
        createCharacterState(CASE id = "the-builder" -> "engineer"
                               [] id = "the-keeper"  -> "ceremony"
                               [] id = "the-weaver"  -> "story_engine")]

getDefaultThemes ==
    [id \in {"integration", "collaboration", "coherence"} |-> createThematicThread]

createUnifiedNarrativeState(now) ==
    [position          |-> createNarrativePosition,
     beats             |-> <<>>,
     characters        |-> getDefaultCharacters,
     themes            |-> getDefaultThemes,
     routingDecisions  |-> <<>>,
     currentEpisodeId  |-> Undefined,
     episodeBeatsCount |-> 0,
     createdAt         |-> now,
     updatedAt         |-> now,
     overallCoherence  |-> Fraction(DefaultCoherence, 10)]

(***************************************************************************)
(* addBeat.                                                                *)
(***************************************************************************)
\* mutant: the act is set, the phase is left as it was
updateAct_actOnly(position, narrativeFunction) ==
    IF narrativeFunction = "inciting_incident"
    THEN [position EXCEPT !.act = 1]
    ELSE IF narrativeFunction \in {"turning_point", "crisis"}
    THEN [position EXCEPT !.act = 2]
    ELSE IF narrativeFunction \in {"climax", "resolution"}
    THEN [position EXCEPT !.act = 3]
    ELSE position

\* "Update act based on narrative function"
updateAct(position, narrativeFunction) ==
    IF narrativeFunction = "inciting_incident"
    THEN [position EXCEPT !.act = 1, !.phase = "setup"]
    ELSE IF narrativeFunction \in {"turning_point", "crisis"}
    THEN [position EXCEPT !.act = 2, !.phase = "confrontation"]
    ELSE IF narrativeFunction \in {"climax", "resolution"}
    THEN [position EXCEPT !.act = 3, !.phase = "resolution"]
    ELSE position

\* mutant: beatCount is read before the beat is pushed
addBeat_staleCount(state, beat, now) ==
    LET pos == [currentBeatId |-> beat.id]
               @@ [state.position EXCEPT !.beatCount = Len(state.beats),
                                         !.leadUniverse = beat.leadUniverse]
    IN  [state EXCEPT !.beats = Append(state.beats, beat),
                      !.position = updateAct(pos, beat.narrativeFunction),
                      !.episodeBeatsCount = state.episodeBeatsCount + 1,
                      !.updatedAt = now]

\* mutant: the position keeps the lead universe it had
addBeat_keepLead(state, beat, now) ==
    LET beats == Append(state.beats, beat)
        pos   == [currentBeatId |-> beat.id]
                 @@ [state.position EXCEPT !.beatCount = Len(beats)]
    IN  [state EXCEPT !.beats = beats,
                      !.position = updateAct(pos, beat.narrativeFunction),
                      !.episodeBeatsCount = state.episodeBeatsCount + 1,
                      !.updatedAt = now]

\* state.position.currentBeatId = beat.id adds the property to a position
\* that has none (a ledger read back from the store)
addBeat(state, beat, now) ==
    LET beats == Append(state.beats, beat)
        pos   == [currentBeatId |-> beat.id]
                 @@ [state.position EXCEPT !.beatCount = Len(beats),
                                           !.leadUniverse = beat.leadUniverse]
    IN  [state EXCEPT !.beats = beats,
                      !.position = updateAct(pos, beat.narrativeFunction),
                      !.episodeBeatsCount = state.episodeBeatsCount + 1,
                      !.updatedAt = now]

(***************************************************************************)
(* updateCharacterArc.  The result is the state after the call and whether *)
(* the call raised.  A characterId that names an inherited property finds  *)
(* a truthy object without growthPoints: the assignment to arcPosition     *)
(* lands on that object and growthPoints.push raises a TypeError before    *)
(* updatedAt is stamped.                                                   *)
(***************************************************************************)
\* mutant: the impact is assigned, not added
updateCharacterArc_assign(state, characterId, impact, description, now) ==
    IF GetProperty(state.characters, characterId) # "own"
    THEN [state |-> state, thrown |-> FALSE]
    ELSE [state |->
            [state EXCEPT
                !.characters[characterId].arcPosition = Min(ArcCeiling, impact),
                !.characters[characterId].growthPoints =
                    Append(state.characters[characterId].growthPoints,
                           [timestamp |-> now, impact |-> impact,
                            description |-> description]),
                !.updatedAt = now],
          thrown |-> FALSE]

updateCharacterArc(state, characterId, impact, description, now) ==
    LET found     == GetProperty(state.characters, characterId)
        character == state.characters[characterId]
    IN  IF found = Undefined
        THEN [state |-> state, thrown |-> FALSE]
        ELSE IF found = "inherited"
        THEN [state |-> state, thrown |-> TRUE]
        ELSE [state |->
                [state EXCEPT
                    !.characters[characterId].arcPosition =
                        Min(ArcCeiling, character.arcPosition + impact),
                    !.characters[characterId].growthPoints =
                        Append(character.growthPoints,
                               [timestamp |-> now, impact |-> impact,
                                description |-> description]),
                    !.updatedAt = now],
              thrown |-> FALSE]

(***************************************************************************)
(* updateThemeStrength.  A themeId that names an inherited property finds  *)
(* a truthy object: the assignment to strength lands on that object, the   *)
(* ledger's updatedAt is stamped, nothing raises.                          *)
(***************************************************************************)
\* mutant: the floor Math.max(0.0, ...) is missing
updateThemeStrength_noFloor(state, themeId, strengthDelta, now) ==
    IF GetProperty(state.themes, themeId) # "own"
    THEN [state |-> state, thrown |-> FALSE]
    ELSE [state |->
            [state EXCEPT
                !.themes[themeId].strength =
                    Min(StrengthCeiling, state.themes[themeId].strength + strengthDelta),
                !.updatedAt = now],
          thrown |-> FALSE]

updateThemeStrength(state, themeId, strengthDelta, now) ==
    LET found == GetProperty(state.themes, themeId)
        theme == state.themes[themeId]
    IN  IF found = Undefined
        THEN [state |-> state, thrown |-> FALSE]
        ELSE IF found = "inherited"
        THEN [state |-> [state EXCEPT !.updatedAt = now], thrown |-> FALSE]
        ELSE [state |->
                [state EXCEPT
                    !.themes[themeId].strength =
                        Max(StrengthFloor,
                            Min(StrengthCeiling, theme.strength + strengthDelta)),
                    !.updatedAt = now],
              thrown |-> FALSE]

(***************************************************************************)
(* getLastNBeats, shouldCreateNewEpisode, startNewEpisode.                 *)
(***************************************************************************)
\* state.beats.slice(-n); in JavaScript -0 is 0, so slice(-0) is slice(0).
getLastNBeats(state, n) == ArraySlice(state.beats, 0 - n)

\* mutant: > instead of >=
shouldCreateNewEpisode_gt(state) ==
    \/ state.episodeBeatsCount > EpisodeLimit
    \/ /\ Len(state.beats) > 0
       /\ state.beats[Len(state.beats)].narrativeFunction = "resolution"

\* mutant: the beat count is the only trigger
shouldCreateNewEpisode_countOnly(state) ==
    state.episodeBeatsCount >= EpisodeLimit

shouldCreateNewEpisode(state) ==
    IF state.episodeBeatsCount >= EpisodeLimit THEN TRUE
    ELSE IF Len(state.beats) > 0
            /\ state.beats[Len(state.beats)].narrativeFunction = "resolution"
    THEN TRUE
    ELSE FALSE

\* state.currentEpisodeId = episodeId adds the property to a state that
\* has none (a ledger read back from the store)
startNewEpisode(state, episodeId, now) ==
    [currentEpisodeId |-> episodeId]
    @@ [state EXCEPT !.episodeBeatsCount = 0,
                     !.updatedAt = now]

(***************************************************************************)
(* Inputs.                                                                 *)
(***************************************************************************)
\* createStoryBeat: the fields the ledger operations read.
BeatInputs ==
    [id : {"beat_1", "beat_2"}, narrativeFunction : NarrativeFunction,
     leadUniverse : {"engineer", "ceremony"}]

EpisodeBeatInputs ==
    [id : {"beat_1"}, narrativeFunction : {"beat", "resolution"},
     leadUniverse : {"engineer"}]

TotalGrowth(state) ==
    LET ids == DOMAIN state.characters
        RECURSIVE Sum(_)
        Sum(S) == IF S = {} THEN 0
                  ELSE LET x == CHOOSE y \in S : TRUE
                       IN  Len(state.characters[x].growthPoints) + Sum(S \ {x})
    IN  Sum(ids)

(***************************************************************************)
(* Actions: one per ledger operation.                                      *)
(***************************************************************************)
NoCall == [op |-> "none"]

InitLedger ==
    /\ clock = 0
    /\ ledger = createUnifiedNarrativeState(0)
    /\ last = NoCall
    /\ thrown = FALSE
    /\ tus = Absent
    /\ engine = Absent
    /\ manager = NarrativeRedisManager
    /\ calls = <<>>
    /\ history = [begun |-> 0, routine |-> TRUE, alone |-> TRUE,
                  first |-> "none", kept |-> TRUE]

Tick ==
    /\ clock < MaxClock
    /\ clock' = clock + 1
    /\ UNCHANGED <<ledger, last, thrown, tus, engine, manager, calls, history>>

AddBeat(beat) ==
    /\ ledger' = addBeat(ledger, beat, clock)
    /\ last' = [op |-> "addBeat", beat |-> beat]
    /\ thrown' = FALSE
    /\ UNCHANGED <<clock, tus, engine, manager, calls, history>>

UpdateCharacterArc(characterId, impact, description) ==
    LET r == updateCharacterArc(ledger, characterId, impact, description, clock)
    IN  /\ ledger' = r.state
        /\ thrown' = r.thrown
        /\ last' = [op |-> "updateCharacterArc", characterId |-> characterId,
                    impact |-> impact, description |-> description]
        /\ UNCHANGED <<clock, tus, engine, manager, calls, history>>

UpdateThemeStrength(themeId, strengthDelta) ==
    LET r == updateThemeStrength(ledger, themeId, strengthDelta, clock)
    IN  /\ ledger' = r.state
        /\ thrown' = r.thrown
        /\ last' = [op |-> "updateThemeStrength", themeId |-> themeId,
                    strengthDelta |-> strengthDelta]
        /\ UNCHANGED <<clock, tus, engine, manager, calls, history>>

GetLastNBeats(n) ==
    /\ last' = [op |-> "getLastNBeats", n |-> n, result |-> getLastNBeats(ledger, n)]
    /\ thrown' = FALSE
    /\ UNCHANGED <<ledger, clock, tus, engine, manager, calls, history>>

ShouldCreateNewEpisode ==
    /\ last' = [op |-> "shouldCreateNewEpisode", result |-> shouldCreateNewEpisode(ledger)]
    /\ thrown' = FALSE
    /\ UNCHANGED <<ledger, clock, tus, engine, manager, calls, history>>

StartNewEpisode(episodeId) ==
    /\ ledger' = startNewEpisode(ledger, episodeId, clock)
    /\ last' = [op |-> "startNewEpisode", episodeId |-> episodeId]
    /\ thrown' = FALSE
    /\ UNCHANGED <<clock, tus, engine, manager, calls, history>>

(***************************************************************************)
(* SpecBeats: the beat list, the position and the windows read from it.    *)
(***************************************************************************)
BeatsAdd == \E beat \in BeatInputs : Len(ledger.beats) < MaxBeats /\ AddBeat(beat)
BeatsLastN == \E n \in 0..MaxN : GetLastNBeats(n)
BeatsStartEpisode == \E id \in {"episode_2"} : StartNewEpisode(id)

NextBeats == BeatsAdd \/ BeatsLastN \/ BeatsStartEpisode

SpecBeats == InitLedger /\ [][NextBeats]_vars

(***************************************************************************)
(* SpecEpisode: long runs of beats and the episode rule.                   *)
(***************************************************************************)
EpisodeAdd ==
    \E beat \in EpisodeBeatInputs : Len(ledger.beats) < MaxEpisodeBeats /\ AddBeat(beat)
EpisodeStart == \E id \in {"episode_2"} : StartNewEpisode(id)
EpisodeShould == ShouldCreateNewEpisode

NextEpisode == EpisodeAdd \/ EpisodeStart \/ EpisodeShould

SpecEpisode == InitLedger /\ [][NextEpisode]_vars

(***************************************************************************)
(* SpecArc: character arcs and theme strengths.                            *)
(***************************************************************************)
ArcAdd ==
    \E beat \in [id : {"beat_1"}, narrativeFunction : {"crisis"}, leadUniverse : {"ceremony"}] :
       Len(ledger.beats) < 1 /\ AddBeat(beat)
ArcUpdateCharacter ==
    \* a character of the ledger, an id nobody has, an inherited property
    \* name; impacts of -0.3, 0.4 and 0.7
    \E id \in {"the-builder", "nobody", "constructor"}, impact \in {-3, 4, 7}, d \in {"Learned empathy"} :
        /\ TotalGrowth(ledger) < MaxGrowth
        /\ UpdateCharacterArc(id, impact, d)
ArcUpdateTheme ==
    \* deltas of -0.7, 0.4 and 1.2
    \E id \in {"integration", "nothing", "constructor"}, delta \in {-7, 4, 12} : UpdateThemeStrength(id, delta)

NextArc == Tick \/ ArcAdd \/ ArcUpdateCharacter \/ ArcUpdateTheme

SpecArc == InitLedger /\ [][NextArc]_vars

(***************************************************************************)
(* Claims about the ledger.                                                *)
(***************************************************************************)
LastBeat(state) == state.beats[Len(state.beats)]

\* this step is a call of the ledger operation op (and not a tick of the clock)
Called(op) == last'.op = op /\ clock' = clock

\* C1: addBeat puts the beat at the end of the beat list, every earlier beat
\* staying where and what it was; afterwards beatCount is the previous
\* beatCount plus 1, currentBeatId and leadUniverse are the new beat's, and
\* episodeBeatsCount is exactly 1 higher.
C1_AddBeatAppends ==
    [][Called("addBeat") =>
        /\ Len(ledger'.beats) = Len(ledger.beats) + 1
        /\ \A i \in 1..Len(ledger.beats) : ledger'.beats[i] = ledger.beats[i]
        /\ LastBeat(ledger') = last'.beat
        /\ ledger'.position.beatCount = ledger.position.beatCount + 1
        /\ ledger'.position.currentBeatId = last'.beat.id
        /\ ledger'.position.leadUniverse = last'.beat.leadUniverse
        /\ ledger'.episodeBeatsCount = ledger.episodeBeatsCount + 1]_vars

\* addBeat has just added a second beat, with another id and lead than the first
C1_Witness ==
    /\ last.op = "addBeat"
    /\ Len(ledger.beats) = 2
    /\ ledger.beats[1].id # ledger.beats[2].id
    /\ ledger.beats[1].leadUniverse # ledger.beats[2].leadUniverse
    /\ ledger.position.beatCount = 2

\* C5: whatever updateCharacterArc and updateThemeStrength calls were made,
\* every character's arcPosition is at most 1.0 and every theme's strength
\* lies in [0, 1].
C5_Clamped ==
    /\ \A c \in DOMAIN ledger.characters : ledger.characters[c].arcPosition <= 10
    /\ \A t \in DOMAIN ledger.themes :
          ledger.themes[t].strength >= 0 /\ ledger.themes[t].strength <= 10

\* the impacts recorded for the builder add up to more than 1.0 and a theme was
\* pushed below 0: both clamps have acted
C5_Witness ==
    LET gp == ledger.characters["the-builder"].growthPoints
    IN  /\ Len(gp) = 2
        /\ gp[1].impact + gp[2].impact > 10
        /\ ledger.characters["the-builder"].arcPosition = 10
        /\ ledger.themes["integration"].strength = 0
        /\ last.op = "updateThemeStrength"
        /\ last.strengthDelta < 0

\* C6 as stated: for a character of the ledger, whatever the impact,
\* arcPosition does not decrease and exactly one growth point with that
\* impact and description is appended.
C6_AnyImpactNeverDecreases ==
    [][(Called("updateCharacterArc")
          /\ last'.characterId \in DOMAIN ledger.characters) =>
        LET before == ledger.characters[last'.characterId]
            after  == ledger'.characters[last'.characterId]
            n      == Len(before.growthPoints)
        IN  /\ after.arcPosition >= before.arcPosition
            /\ Len(after.growthPoints) = n + 1
            /\ \A i \in 1..n : after.growthPoints[i] = before.growthPoints[i]
            /\ after.growthPoints[n + 1].impact = last'.impact
            /\ after.growthPoints[n + 1].description = last'.description]_vars

\* C6 amended: for a character of the ledger and an impact >= 0, arcPosition
\* does not decrease; for every impact exactly one growth point carrying that
\* impact and description is appended at the end of growthPoints, the earlier
\* ones staying as they were.
C6_GrowthOnly ==
    [][(Called("updateCharacterArc")
          /\ last'.characterId \in DOMAIN ledger.characters) =>
        LET before == ledger.characters[last'.characterId]
            after  == ledger'.characters[last'.characterId]
            n      == Len(before.growthPoints)
        IN  /\ last'.impact >= 0 => after.arcPosition >= before.arcPosition
            /\ Len(after.growthPoints) = n + 1
            /\ \A i \in 1..n : after.growthPoints[i] = before.growthPoints[i]
            /\ after.growthPoints[n + 1].impact = last'.impact
            /\ after.growthPoints[n + 1].description = last'.description]_vars

\* a second positive impact has just been recorded for the builder
C6_Witness ==
    /\ last.op = "updateCharacterArc"
    /\ last.characterId = "the-builder"
    /\ last.impact > 0
    /\ Len(ledger.characters["the-builder"].growthPoints) = 2
    /\ ledger.characters["the-builder"].growthPoints[1].impact > 0
    /\ ledger.characters["the-builder"].arcPosition > 0

\* C7: updateCharacterArc with a character id that is not in the ledger and
\* updateThemeStrength with a theme id that is not in the ledger do not raise
\* and leave every field of the ledger unchanged.
C7_UnknownIdIsNoOp ==
    [][(\/ Called("updateCharacterArc")
           /\ last'.characterId \notin DOMAIN ledger.characters
        \/ Called("updateThemeStrength")
           /\ last'.themeId \notin DOMAIN ledger.themes) =>
        (ledger' = ledger /\ thrown' = FALSE)]_vars

\* C8: addBeat sets (act, phase) to (1, setup) for inciting_incident, to
\* (2, confrontation) for turning_point and crisis, to (3, resolution) for
\* climax and resolution, and leaves both unchanged for every other function;
\* so (act, phase) is always one of these three pairs.
C8_ActPhase ==
    /\ [](<<ledger.position.act, ledger.position.phase>> \in
            {<<1, "setup">>, <<2, "confrontation">>, <<3, "resolution">>})
    /\ [][Called("addBeat") =>
            LET f == last'.beat.narrativeFunction
                p == ledger.position
                q == ledger'.position
            IN  /\ f = "inciting_incident" => q.act = 1 /\ q.phase = "setup"
                /\ f \in {"turning_point", "crisis"} =>
                       q.act = 2 /\ q.phase = "confrontation"
                /\ f \in {"climax", "resolution"} =>
                       q.act = 3 /\ q.phase = "resolution"
                /\ f \in {"rising_action", "complication", "denouement", "beat"} =>
                       q.act = p.act /\ q.phase = p.phase]_vars

\* a denouement was added after a climax: act and phase stayed (3, resolution)
C8_Witness ==
    /\ last.op = "addBeat"
    /\ Len(ledger.beats) = 2
    /\ ledger.beats[1].narrativeFunction = "climax"
    /\ ledger.beats[2].narrativeFunction = "denouement"
    /\ ledger.position.act = 3
    /\ ledger.position.phase = "resolution"

\* C9: shouldCreateNewEpisode is true exactly when episodeBeatsCount >= 12 or
\* the last beat is a resolution; startNewEpisode sets currentEpisodeId and
\* resets episodeBeatsCount to 0 without touching the beat list or the
\* position, and every addBeat raises the counter by 1: so 12 beats that are
\* not resolutions after a startNewEpisode make it true and 11 do not.
C9_EpisodeRule ==
    /\ [](shouldCreateNewEpisode(ledger) <=>
            \/ ledger.episodeBeatsCount >= 12
            \/ /\ ledger.beats # <<>>
               /\ LastBeat(ledger).narrativeFunction = "resolution")
    /\ [](last.op = "shouldCreateNewEpisode" =>
            (last.result <=>
                \/ ledger.episodeBeatsCount >= 12
                \/ /\ ledger.beats # <<>>
                   /\ LastBeat(ledger).narrativeFunction = "resolution"))
    /\ [][Called("startNewEpisode") =>
            /\ ledger'.currentEpisodeId = last'.episodeId
            /\ ledger'.episodeBeatsCount = 0
            /\ ledger'.beats = ledger.beats
            /\ ledger'.position = ledger.position]_vars
    /\ [][Called("addBeat") =>
            ledger'.episodeBeatsCount = ledger.episodeBeatsCount + 1]_vars
    /\ [](\A k \in 0..11 :
            (/\ ledger.episodeBeatsCount = k
             /\ (ledger.beats = <<>> \/ LastBeat(ledger).narrativeFunction # "resolution"))
            => ~shouldCreateNewEpisode(ledger))

\* an episode was started after the first beat and 12 beats, none of them a
\* resolution, followed: shouldCreateNewEpisode has just returned true
C9_Witness ==
    /\ last.op = "shouldCreateNewEpisode"
    /\ last.result = TRUE
    /\ ledger.currentEpisodeId = "episode_2"
    /\ Len(ledger.beats) = 13
    /\ ledger.episodeBeatsCount = 12
    /\ \A i \in 1..13 : ledger.beats[i].narrativeFunction # "resolution"

\* C10: for every n >= 0, n = 0 included, getLastNBeats returns exactly the
\* last min(n, number of beats) beats in ledger order.
C10_LastNBeats ==
    last.op = "getLastNBeats" =>
        LET len == Len(ledger.beats)
            k   == Min(last.n, len)
        IN  /\ Len(last.result) = k
            /\ \A i \in 1..k : last.result[i] = ledger.beats[len - k + i]

(***************************************************************************)
(* Three-universe processor (three_universe_processor.ts).                 *)
(*                                                                         *)
(* Strings.  A string is the non-empty sequence of the tokens that its     *)
(* single spaces separate: "fix: new" is <<"fix:", "new">>, "" is <<"">>   *)
(* and " new" is <<"", "new">>.  a + " " + b is therefore a \o b.  Tokens  *)
(* come from Vocabulary; the token "x{501}" stands for the letter x        *)
(* written 501 times.                                                      *)
(*                                                                         *)
(* Numbers.  A keyword score hits/terms is kept in sixtieths (every term   *)
(* list has 4, 5 or 6 terms), a confidence in 1/300, dramatic tension and  *)
(* the coherence score in hundredths.  In these units every sum the code   *)
(* computes is an integer; the double-precision results of the code        *)
(* compare (<, =, >) exactly as these integers do.                         *)
(***************************************************************************)
ScoreScale == 60
ConfidenceScale == 300

Vocabulary ==
    {"", "fix:", "security", "settings", "connect", "community-support",
     "release", "minor", "URGENT", "major", "new", "docs:", "cleanup",
     "config:configure-settings-env",
     "add-implement-build-develop-progress-continue", "x{501}"}

EmptyString == <<"">>

\* String.prototype.toLowerCase on one token
ToLowerCase(token) ==
    CASE token = "URGENT" -> "urgent"
      [] token = "Climax" -> "climax"
      [] token = "Joyful and Triumphant" -> "joyful and triumphant"
      [] token = "Indigenous" -> "indigenous"
      [] OTHER -> token

\* content.toLowerCase()
StringToLowerCase(s) == [i \in 1..Len(s) |-> ToLowerCase(s[i])]

\* token.length
TokenLength(token) ==
    CASE token = "" -> 0
      [] token = "fix:" -> 4
      [] token = "security" -> 8
      [] token = "settings" -> 8
      [] token = "connect" -> 7
      [] token = "community-support" -> 17
      [] token = "release" -> 7
      [] token = "minor" -> 5
      [] token = "URGENT" -> 6
      [] token = "urgent" -> 6
      [] token = "major" -> 5
      [] token = "new" -> 3
      [] token = "docs:" -> 5
      [] token = "cleanup" -> 7
      [] token = "config:configure-settings-env" -> 29
      [] token = "add-implement-build-develop-progress-continue" -> 45
      [] token = "x{501}" -> 501
      [] token = "team" -> 4

\* content.length: the tokens and the spaces between them
StringLength(s) ==
    LET RECURSIVE Total(_)
        Total(i) == IF i = 0 THEN 0 ELSE TokenLength(s[i]) + Total(i - 1)
    IN  Total(Len(s)) + Len(s) - 1

\* The terms of the keyword lists, and the words the coherence engine looks
\* for, that are substrings of a token (case-sensitive, as
\* String.prototype.includes is).  No term with a space
\* ("thank you") can be formed by two adjacent tokens of Vocabulary.
TermsIn(token) ==
    CASE token = "fix:" -> {"fix:", "fix"}
      [] token = "security" -> {"security"}
      [] token = "settings" -> {"settings"}
      [] token = "connect" -> {"connect"}
      [] token = "community-support" -> {"community", "support"}
      [] token = "release" -> {"release"}
      [] token = "minor" -> {"minor"}
      [] token = "urgent" -> {"urgent"}
      [] token = "major" -> {"major"}
      [] token = "new" -> {"new"}
      [] token = "docs:" -> {"docs:"}
      [] token = "cleanup" -> {"cleanup"}
      [] token = "config:configure-settings-env" ->
            {"config:", "configure", "settings", "env"}
      [] token = "add-implement-build-develop-progress-continue" ->
            {"add", "implement", "build", "develop", "progress", "continue"}
      [] token = "team" -> {"team"}
      \* emotional tones and narrative functions of the coherence engine
      [] token = "devastating" -> {"devastating"}
      [] token = "joyful and triumphant" -> {"joyful", "triumphant"}
      [] token = "crisis" -> {"crisis"}
      [] token = "climax" -> {"climax"}
      \* prompts and flags of the ceremony gate; stop-sign and warning-sign
      \* stand for the two emoji the gate searches the flags for
      [] token = "indigenous" -> {"indigenous"}
      [] token = "ceremony" -> {"ceremony"}
      [] token = "stop-sign consent missing" -> {"stop-sign"}
      [] token = "warning-sign no reflection" -> {"warning-sign"}
      [] OTHER -> {}

\* s.includes(term)
Includes(s, term) == \E i \in 1..Len(s) : term \in TermsIn(s[i])

\* words.some((w) => s.includes(w))
SomeIncluded(words, s) == \E w \in words : Includes(s, w)

\* parts.join(" ") for a list of strings
Join(parts) ==
    LET RECURSIVE Flat(_)
        Flat(i) == IF i = 0 THEN <<>> ELSE Flat(i - 1) \o parts[i]
    IN  IF parts = <<>> THEN EmptyString ELSE Flat(Len(parts))

\* parts.filter(Boolean): the non-empty strings of a list
FilterBoolean(parts) == SelectSeq(parts, LAMBDA p : p # EmptyString)

engineerIntentKeywords ==
    << [intent |-> "feature_implementation",
        terms |-> <<"feat:", "feature", "add", "implement", "create", "new">>],
       [intent |-> "bug_fix",
        terms |-> <<"fix:", "bug", "hotfix", "patch", "resolve", "correct">>],
       [intent |-> "refactor",
        terms |-> <<"refactor", "refact:", "cleanup", "restructure", "reorganize">>],
       [intent |-> "documentation",
        terms |-> <<"docs:", "doc:", "documentation", "readme", "comment">>],
       [intent |-> "testing",
        terms |-> <<"test:", "tests:", "testing", "spec", "coverage">>],
       [intent |-> "dependency",
        terms |-> <<"deps:", "dependency", "upgrade", "update", "bump">>],
       [intent |-> "configuration",
        terms |-> <<"config:", "configure", "settings", "env">>],
       [intent |-> "performance",
        terms |-> <<"perf:", "performance", "optimize", "speed", "cache">>],
       [intent |-> "security",
        terms |-> <<"security", "sec:", "vulnerability", "auth", "permission">>],
       [intent |-> "ci_cd",
        terms |-> <<"ci:", "cd:", "pipeline", "workflow", "build">>] >>

ceremonyIntentKeywords ==
    << [intent |-> "co_creation",
        terms |-> <<"we", "together", "team", "pair", "collaborate", "co-author">>],
       [intent |-> "gratitude_expression",
        terms |-> <<"thanks", "thank you", "grateful", "appreciate", "credit">>],
       [intent |-> "witnessing",
        terms |-> <<"witness", "observe", "acknowledge", "see", "recognize">>],
       [intent |-> "sacred_pause",
        terms |-> <<"pause", "reflect", "consider", "contemplate", "breathe">>],
       [intent |-> "relationship_building",
        terms |-> <<"connect", "relationship", "community", "support">>],
       [intent |-> "healing",
        terms |-> <<"heal", "restore", "repair", "reconcile", "mend">>],
       [intent |-> "celebration",
        terms |-> <<"celebrate", "milestone", "achievement", "success", "complete">>],
       [intent |-> "offering",
        terms |-> <<"offer", "gift", "contribute", "share", "give">>] >>

storyEngineIntentKeywords ==
    << [intent |-> "inciting_incident",
        terms |-> <<"init", "start", "begin", "new", "first", "introduce">>],
       [intent |-> "rising_action",
        terms |-> <<"add", "implement", "build", "develop", "progress", "continue">>],
       [intent |-> "turning_point",
        terms |-> <<"feat:", "major", "significant", "pivot", "change", "transform">>],
       [intent |-> "complication",
        terms |-> <<"issue", "problem", "bug", "error", "conflict", "challenge">>],
       [intent |-> "crisis",
        terms |-> <<"critical", "urgent", "breaking", "emergency", "blocker">>],
       [intent |-> "climax",
        terms |-> <<"complete", "finish", "final", "release", "launch", "deploy">>],
       [intent |-> "resolution",
        terms |-> <<"fix", "resolve", "close", "merge", "done">>],
       [intent |-> "denouement",
        terms |-> <<"cleanup", "refactor", "optimize", "polish", "improve">>] >>

\* The loop over Object.entries(keywords): the entries of intentScores, in
\* insertion order, score = hits / terms.length for the intents with a hit.
IntentScores(keywords, contentLower) ==
    LET Hits(terms) ==
            Cardinality({i \in 1..Len(terms) : Includes(contentLower, terms[i])})
        scored == [i \in 1..Len(keywords) |->
                    [intent |-> keywords[i].intent,
                     score  |-> (Hits(keywords[i].terms) * ScoreScale)
                                    \div Len(keywords[i].terms)]]
    IN  SelectSeq(scored, LAMBDA e : e.score > 0)

\* mutant: a[1] >= b[1], the earlier of two equal entries is kept
ReduceHighestScore_keepFirst(entries) ==
    LET RECURSIVE Reduce(_)
        Reduce(i) == IF i = 1 THEN entries[1]
                     ELSE LET a == Reduce(i - 1)
                              b == entries[i]
                          IN  IF a.score >= b.score THEN a ELSE b
    IN  Reduce(Len(entries))

\* Object.entries(intentScores).reduce((a, b) => (a[1] > b[1] ? a : b))
ReduceHighestScore(entries) ==
    LET RECURSIVE Reduce(_)
        Reduce(i) == IF i = 1 THEN entries[1]
                     ELSE LET a == Reduce(i - 1)
                              b == entries[i]
                          IN  IF a.score > b.score THEN a ELSE b
    IN  Reduce(Len(entries))

\* mutant: the ceiling Math.min(0.95, ...) is missing
Confidence_noCeiling(base, score) ==
    (base * ConfidenceScale) \div 100
        + (score * 4 * ConfidenceScale) \div (10 * ScoreScale)

\* Math.min(0.95, base + score * 0.4), base given in hundredths
Confidence(base, score) ==
    Min((95 * ConfidenceScale) \div 100,
        (base * ConfidenceScale) \div 100
            + (score * 4 * ConfidenceScale) \div (10 * ScoreScale))

\* a confidence written in the code as a number of hundredths
FixedConfidence(hundredths) == (hundredths * ConfidenceScale) \div 100

(***************************************************************************)
(* Events.  event.content and event.payload are optional; a payload holds  *)
(* optional commits, issue, pull_request and comment.  A missing title,    *)
(* body or message reads as "" (x || ""), a missing sender, author or      *)
(* login is Undefined.                                                     *)
(***************************************************************************)
createUniversePerspective(universe, intent, confidence, context) ==
    [universe |-> universe, intent |-> intent, confidence |-> confidence,
     context |-> context]

createThreeUniverseAnalysis(engineer, ceremony, storyEngine, leadUniverse, coherenceScore) ==
    [engineer |-> engineer, ceremony |-> ceremony, storyEngine |-> storyEngine,
     leadUniverse |-> leadUniverse, coherenceScore |-> coherenceScore]

\* the state process() and the tests start from: { event, eventType }
createThreeUniverseState(event, eventType) ==
    [event |-> event, eventType |-> eventType,
     engineerPerspective |-> Absent, ceremonyPerspective |-> Absent,
     storyEnginePerspective |-> Absent,
     analysis |-> Absent, leadUniverse |-> Undefined, coherenceScore |-> Absent,
     error |-> Undefined]

\* the content analyzeEngineerPerspective extracts
engineerContent(event) ==
    IF event.payload # Absent
    THEN LET payload == event.payload[1]
         IN  IF payload.commits # Absent
             THEN LET commits == payload.commits[1]
                  IN  Join([i \in 1..Len(commits) |-> commits[i].message])
             ELSE IF payload.issue # Absent
             THEN payload.issue[1].title \o payload.issue[1].body
             ELSE IF payload.pull_request # Absent
             THEN payload.pull_request[1].title \o payload.pull_request[1].body
             ELSE EmptyString
    ELSE IF event.content # Absent /\ event.content[1] # EmptyString
    THEN event.content[1]
    ELSE EmptyString

estimateComplexity(content, event) ==
    LET commitCount ==
            IF event.payload # Absent /\ event.payload[1].commits # Absent
            THEN Len(event.payload[1].commits[1])
            ELSE 0
    IN  IF commitCount > 5 THEN "high"
        ELSE IF commitCount > 2 THEN "medium"
        ELSE IF StringLength(content) > 500 THEN "high"
        ELSE IF StringLength(content) > 100 THEN "medium"
        ELSE "low"

analyzeEngineerPerspective(state) ==
    LET event        == state.event
        content      == engineerContent(event)
        contentLower == StringToLowerCase(content)
        intentScores == IntentScores(engineerIntentKeywords, contentLower)
        best         == ReduceHighestScore(intentScores)
        intent       == IF intentScores # <<>> THEN best.intent ELSE "maintenance"
        confidence   == IF intentScores # <<>> THEN Confidence(60, best.score)
                        ELSE FixedConfidence(50)
        context      == [contentLength |-> StringLength(content),
                         eventType |-> state.eventType,
                         estimatedComplexity |-> estimateComplexity(content, event)]
    IN  [state EXCEPT !.engineerPerspective =
            Some(createUniversePerspective("engineer", intent, confidence, context))]

extractContributors(event) ==
    LET Push(list, name) ==
            IF name # Undefined /\ \A i \in 1..Len(list) : list[i] # name
            THEN Append(list, name) ELSE list
        fromSender == IF event.sender # Undefined THEN <<event.sender>> ELSE <<>>
        RECURSIVE FromCommits(_, _)
        FromCommits(commits, i) ==
            IF i = 0 THEN fromSender
            ELSE Push(FromCommits(commits, i - 1), commits[i].author)
        contributors ==
            IF event.payload = Absent THEN fromSender
            ELSE LET payload == event.payload[1]
                     c1 == IF payload.commits # Absent
                           THEN FromCommits(payload.commits[1], Len(payload.commits[1]))
                           ELSE fromSender
                     c2 == IF payload.issue # Absent
                           THEN Push(c1, payload.issue[1].user) ELSE c1
                     c3 == IF payload.pull_request # Absent
                           THEN Push(c2, payload.pull_request[1].user) ELSE c2
                 IN  c3
    IN  IF Len(contributors) > 0 THEN contributors ELSE <<"unknown">>

extractContent(event) ==
    IF event.content # Absent /\ event.content[1] # EmptyString
    THEN event.content[1]
    ELSE IF event.payload # Absent
    THEN LET payload == event.payload[1]
             p1 == IF payload.commits # Absent
                   THEN [i \in 1..Len(payload.commits[1]) |->
                            payload.commits[1][i].message]
                   ELSE <<>>
             p2 == IF payload.issue # Absent
                   THEN p1 \o <<payload.issue[1].title, payload.issue[1].body>>
                   ELSE p1
             p3 == IF payload.pull_request # Absent
                   THEN p2 \o <<payload.pull_request[1].title,
                                payload.pull_request[1].body>>
                   ELSE p2
             p4 == IF payload.comment # Absent
                   THEN Append(p3, payload.comment[1].body) ELSE p3
         IN  Join(FilterBoolean(p4))
    ELSE EmptyString

assessEnergy(content) ==
    LET contentLower == StringToLowerCase(content)
    IN  IF SomeIncluded({"urgent", "critical", "asap", "emergency"}, contentLower)
        THEN "urgent_flow"
        ELSE IF SomeIncluded({"excited", "happy", "great", "awesome"}, contentLower)
        THEN "joyful_flow"
        ELSE IF SomeIncluded({"stuck", "blocked", "help", "issue"}, contentLower)
        THEN "seeking_support"
        ELSE IF SomeIncluded({"thoughtful", "consider", "reflect"}, contentLower)
        THEN "contemplative_flow"
        ELSE "steady_flow"

needsWitnessing(content) ==
    LET contentLower == StringToLowerCase(content)
    IN  \/ SomeIncluded({"first", "new", "trying", "learning", "help"}, contentLower)
        \/ SomeIncluded({"complete", "achieve", "milestone", "done"}, contentLower)

assessRelationshipDepth(contributors) ==
    IF Len(contributors) > 2 THEN "community"
    ELSE IF Len(contributors) > 1 THEN "pair"
    ELSE "individual"

\* mutant: the bonus is added to an existing co_creation entry only
addCoCreationBonus_existingOnly(intentScores) ==
    [i \in 1..Len(intentScores) |->
        IF intentScores[i].intent = "co_creation"
        THEN [intentScores[i] EXCEPT !.score = @ + ScoreScale \div 2]
        ELSE intentScores[i]]

\* intentScores.co_creation = (intentScores.co_creation || 0) + 0.5: an
\* existing entry keeps its place, a new one is inserted last
addCoCreationBonus(intentScores) ==
    IF \E i \in 1..Len(intentScores) : intentScores[i].intent = "co_creation"
    THEN [i \in 1..Len(intentScores) |->
            IF intentScores[i].intent = "co_creation"
            THEN [intentScores[i] EXCEPT !.score = @ + ScoreScale \div 2]
            ELSE intentScores[i]]
    ELSE Append(intentScores,
                [intent |-> "co_creation", score |-> 0 + ScoreScale \div 2])

analyzeCeremonyPerspective(state) ==
    LET event        == state.event
        contributors == extractContributors(event)
        content      == extractContent(event)
        contentLower == StringToLowerCase(content)
        keywordScores == IntentScores(ceremonyIntentKeywords, contentLower)
        intentScores == IF Len(contributors) > 1
                        THEN addCoCreationBonus(keywordScores)
                        ELSE keywordScores
        best         == ReduceHighestScore(intentScores)
        intent       == IF intentScores # <<>> THEN best.intent
                        ELSE "individual_offering"
        confidence   == IF intentScores # <<>> THEN Confidence(50, best.score)
                        ELSE FixedConfidence(60)
        context      == [contributors |-> contributors,
                         isCollaborative |-> Len(contributors) > 1,
                         senderEnergy |-> assessEnergy(content),
                         witnessingNeeded |-> needsWitnessing(content),
                         relationshipDepth |-> assessRelationshipDepth(contributors)]
    IN  [state EXCEPT !.ceremonyPerspective =
            Some(createUniversePerspective("ceremony", intent, confidence, context))]

\* baseTension[intent] || 0.5, in hundredths
baseTension(intent) ==
    CASE intent = "inciting_incident" -> 40
      [] intent = "rising_action" -> 50
      [] intent = "turning_point" -> 70
      [] intent = "complication" -> 60
      [] intent = "crisis" -> 90
      [] intent = "climax" -> 100
      [] intent = "resolution" -> 40
      [] intent = "denouement" -> 20
      [] OTHER -> 50

\* Math.round(tension * 100) / 100 of a tension that is a whole number of
\* hundredths up to the rounding error of the additions
calculateDramaticTension(intent, content) ==
    LET contentLower == StringToLowerCase(content)
        base    == baseTension(intent)
        raised  == IF SomeIncluded({"urgent", "critical", "breaking"}, contentLower)
                   THEN Min(100, base + 20) ELSE base
        lowered == IF SomeIncluded({"minor", "small", "trivial"}, contentLower)
                   THEN Max(10, raised - 20) ELSE raised
    IN  lowered

\* actMap[intent] || 2
actMap(intent) ==
    CASE intent = "inciting_incident" -> 1
      [] intent \in {"rising_action", "turning_point", "complication", "crisis"} -> 2
      [] intent \in {"climax", "resolution", "denouement"} -> 3
      [] OTHER -> 2

\* functionMap[intent] || "beat"
functionMap(intent) ==
    IF intent \in {"inciting_incident", "rising_action", "turning_point",
                   "complication", "crisis", "climax", "resolution", "denouement"}
    THEN intent ELSE "beat"

suggestPacing(intent, tension) ==
    IF tension > 80 THEN "accelerate"
    ELSE IF tension < 30 THEN "breathe"
    ELSE IF intent = "inciting_incident" \/ intent = "climax" THEN "emphasize"
    ELSE "steady"

analyzeStoryEnginePerspective(state) ==
    LET event        == state.event
        content      == extractContent(event)
        contentLower == StringToLowerCase(content)
        intentScores == IntentScores(storyEngineIntentKeywords, contentLower)
        best         == ReduceHighestScore(intentScores)
        intent       == IF intentScores # <<>> THEN best.intent ELSE "rising_action"
        confidence   == IF intentScores # <<>> THEN Confidence(55, best.score)
                        ELSE FixedConfidence(50)
        dramaticTension == calculateDramaticTension(intent, content)
        context      == [act |-> actMap(intent),
                         narrativeFunction |-> functionMap(intent),
                         dramaticTension |-> dramaticTension,
                         pacingSuggestion |-> suggestPacing(intent, dramaticTension)]
    IN  [state EXCEPT !.storyEnginePerspective =
            Some(createUniversePerspective("story_engine", intent, confidence, context))]

(***************************************************************************)
(* Synthesis.                                                              *)
(***************************************************************************)
\* determineLeadUniverse with the engineer conditions tested before the
\* story-engine conditions
determineLeadUniverse_engineerFirst(engineer, ceremony, storyEngine) ==
    IF ceremony.context.witnessingNeeded THEN "ceremony"
    ELSE IF ceremony.context.isCollaborative THEN "ceremony"
    ELSE IF engineer.context.estimatedComplexity = "high" THEN "engineer"
    ELSE IF engineer.intent = "security" \/ engineer.intent = "bug_fix" THEN "engineer"
    ELSE IF storyEngine.context.dramaticTension > 80 THEN "story_engine"
    ELSE IF \/ storyEngine.context.narrativeFunction = "climax"
            \/ storyEngine.context.narrativeFunction = "turning_point"
    THEN "story_engine"
    ELSE LET ab == IF engineer.confidence > ceremony.confidence
                   THEN engineer ELSE ceremony
         IN  IF ab.confidence > storyEngine.confidence
             THEN ab.universe ELSE storyEngine.universe

determineLeadUniverse(engineer, ceremony, storyEngine) ==
    IF ceremony.context.witnessingNeeded THEN "ceremony"
    ELSE IF ceremony.context.isCollaborative THEN "ceremony"
    ELSE IF storyEngine.context.dramaticTension > 80 THEN "story_engine"
    ELSE IF \/ storyEngine.context.narrativeFunction = "climax"
            \/ storyEngine.context.narrativeFunction = "turning_point"
    THEN "story_engine"
    ELSE IF engineer.context.estimatedComplexity = "high" THEN "engineer"
    ELSE IF engineer.intent = "security" \/ engineer.intent = "bug_fix" THEN "engineer"
    ELSE \* perspectives.reduce((a, b) => (a[0].confidence > b[0].confidence ? a : b))
         LET ab == IF engineer.confidence > ceremony.confidence
                   THEN engineer ELSE ceremony
         IN  IF ab.confidence > storyEngine.confidence
             THEN ab.universe ELSE storyEngine.universe

\* mutant: the penalty for the spread of the confidences is missing
calculateLensCoherence_noPenalty(engineer, ceremony, storyEngine) ==
    LET unit == 15 * ConfidenceScale
        sum  == engineer.confidence + ceremony.confidence + storyEngine.confidence
        urgentCount ==
            (IF engineer.intent \in {"security", "bug_fix", "performance"} THEN 1 ELSE 0)
            + (IF ceremony.context.senderEnergy = "urgent_flow" THEN 1 ELSE 0)
            + (IF storyEngine.context.dramaticTension > 70 THEN 1 ELSE 0)
        bonus   == IF urgentCount >= 2 THEN unit \div 10 ELSE 0
        clamped == Max(0, Min(unit, 5 * sum + bonus))
    IN  (2 * 100 * clamped + unit) \div (2 * unit)

\* calculateCoherence of the processor, in hundredths.  With confidences in
\* 1/300 the sum avgConfidence + bonus - penalty is a whole number of 1/4500.
calculateLensCoherence(engineer, ceremony, storyEngine) ==
    LET unit == 15 * ConfidenceScale
        sum  == engineer.confidence + ceremony.confidence + storyEngine.confidence
        engineerUrgent == engineer.intent \in {"security", "bug_fix", "performance"}
        ceremonyUrgent == ceremony.context.senderEnergy = "urgent_flow"
        storyUrgent    == storyEngine.context.dramaticTension > 70
        urgentCount == (IF engineerUrgent THEN 1 ELSE 0)
                       + (IF ceremonyUrgent THEN 1 ELSE 0)
                       + (IF storyUrgent THEN 1 ELSE 0)
        bonus   == IF urgentCount >= 2 THEN unit \div 10 ELSE 0
        highest == Max(engineer.confidence, Max(ceremony.confidence, storyEngine.confidence))
        lowest  == Min(engineer.confidence, Min(ceremony.confidence, storyEngine.confidence))
        penalty == (highest - lowest) * 3
        coherence == 5 * sum + bonus - penalty
        clamped == Max(0, Min(unit, coherence))
    IN  \* Math.round(clamped * 100) / 100
        (2 * 100 * clamped + unit) \div (2 * unit)

MissingPerspectives == "Missing one or more perspectives"

\* synthesizePerspectives that names a lead although a perspective is missing
synthesizePerspectives_defaultLead(state) ==
    IF \/ state.engineerPerspective = Absent
       \/ state.ceremonyPerspective = Absent
       \/ state.storyEnginePerspective = Absent
    THEN [state EXCEPT !.error = MissingPerspectives, !.leadUniverse = "engineer"]
    ELSE LET engineer    == state.engineerPerspective[1]
             ceremony    == state.ceremonyPerspective[1]
             storyEngine == state.storyEnginePerspective[1]
             lead        == determineLeadUniverse(engineer, ceremony, storyEngine)
             coherence   == calculateLensCoherence(engineer, ceremony, storyEngine)
         IN  [state EXCEPT
                !.analysis = Some(createThreeUniverseAnalysis(
                                    engineer, ceremony, storyEngine, lead, coherence)),
                !.leadUniverse = lead,
                !.coherenceScore = Some(coherence)]

\* { ...state, error } or { ...state, analysis, leadUniverse, coherenceScore }:
\* every other property of the state is carried over as it is
synthesizePerspectives(state) ==
    IF \/ state.engineerPerspective = Absent
       \/ state.ceremonyPerspective = Absent
       \/ state.storyEnginePerspective = Absent
    THEN [state EXCEPT !.error = MissingPerspectives]
    ELSE LET engineer    == state.engineerPerspective[1]
             ceremony    == state.ceremonyPerspective[1]
             storyEngine == state.storyEnginePerspective[1]
             lead        == determineLeadUniverse(engineer, ceremony, storyEngine)
             coherence   == calculateLensCoherence(engineer, ceremony, storyEngine)
         IN  [state EXCEPT
                !.analysis = Some(createThreeUniverseAnalysis(
                                    engineer, ceremony, storyEngine, lead, coherence)),
                !.leadUniverse = lead,
                !.coherenceScore = Some(coherence)]

\* ThreeUniverseProcessor.process: the final state and whether it threw
process(event, eventType) ==
    LET s0 == createThreeUniverseState(event, eventType)
        s1 == analyzeEngineerPerspective(s0)
        s2 == analyzeCeremonyPerspective(s1)
        s3 == analyzeStoryEnginePerspective(s2)
        s4 == synthesizePerspectives(s3)
    IN  [state |-> s4, thrown |-> s4.error # Undefined]

(***************************************************************************)
(* Inputs of the processor.                                                *)
(***************************************************************************)
MaxTokens == 2      \* tokens in event.content
MaxCommits == 6     \* commits in a push payload

SenderInputs == {Undefined, "alice"}

CommitInputs ==
    {[message |-> <<"fix:">>, author |-> "bob"],
     [message |-> <<"docs:">>, author |-> "alice"]}

Payload(commits, issue, pull_request, comment) ==
    Some([commits |-> commits, issue |-> issue,
          pull_request |-> pull_request, comment |-> comment])

ContentEvents ==
    {[content |-> Some(s), sender |-> Undefined, payload |-> Absent] :
        s \in UNION {[1..k -> Vocabulary] : k \in 1..MaxTokens}}
    \cup {[content |-> Absent, sender |-> Undefined, payload |-> Absent]}

PushEvents ==
    {[content |-> c, sender |-> s,
      payload |-> Payload(Some(commits), Absent, Absent, Absent)] :
        c \in {Absent, Some(<<"major">>), Some(<<"community-support">>),
               Some(<<"team">>)},
        s \in SenderInputs,
        commits \in UNION {[1..k -> CommitInputs] : k \in 0..MaxCommits}}

IssueEvents ==
    {[content |-> Absent, sender |-> s,
      payload |-> Payload(Absent,
                          Some([title |-> title, body |-> body, user |-> user]),
                          Absent, Absent)] :
        s \in SenderInputs, title \in {EmptyString, <<"security">>},
        body \in {EmptyString, <<"new">>}, user \in {Undefined, "bob"}}

PullRequestEvents ==
    {[content |-> Absent, sender |-> "alice",
      payload |-> Payload(Absent, Absent,
                          Some([title |-> <<"release">>, body |-> <<"minor">>,
                                user |-> user]),
                          comment)] :
        user \in {"alice", "bob"},
        comment \in {Absent, Some([body |-> <<"URGENT">>])}}

Events == ContentEvents \cup PushEvents \cup IssueEvents \cup PullRequestEvents

(***************************************************************************)
(* SpecSynth: one event taken through the analyzers and the synthesis, in  *)
(* any order and any number of times: the four functions are exported and  *)
(* take any ThreeUniverseState.                                            *)
(***************************************************************************)
InitSynth ==
    /\ clock = 0
    /\ ledger = createUnifiedNarrativeState(0)
    /\ last = NoCall
    /\ thrown = FALSE
    /\ engine = Absent
    /\ manager = NarrativeRedisManager
    /\ calls = <<>>
    /\ history = [begun |-> 0, routine |-> TRUE, alone |-> TRUE,
                  first |-> "none", kept |-> TRUE]
    /\ \E event \in Events : tus = createThreeUniverseState(event, "unknown")

AnalyzeEngineer ==
    /\ tus' = analyzeEngineerPerspective(tus)
    /\ last' = [op |-> "analyzeEngineerPerspective"]
    /\ thrown' = FALSE
    /\ UNCHANGED <<ledger, clock, engine, manager, calls, history>>

AnalyzeCeremony ==
    /\ tus' = analyzeCeremonyPerspective(tus)
    /\ last' = [op |-> "analyzeCeremonyPerspective"]
    /\ thrown' = FALSE
    /\ UNCHANGED <<ledger, clock, engine, manager, calls, history>>

AnalyzeStoryEngine ==
    /\ tus' = analyzeStoryEnginePerspective(tus)
    /\ last' = [op |-> "analyzeStoryEnginePerspective"]
    /\ thrown' = FALSE
    /\ UNCHANGED <<ledger, clock, engine, manager, calls, history>>

Synthesize ==
    /\ tus' = synthesizePerspectives(tus)
    /\ last' = [op |-> "synthesizePerspectives"]
    /\ thrown' = FALSE
    /\ UNCHANGED <<ledger, clock, engine, manager, calls, history>>

Process ==
    LET r == process(tus.event, tus.eventType)
    IN  /\ tus' = r.state
        /\ thrown' = r.thrown
        /\ last' = [op |-> "process"]
        /\ UNCHANGED <<ledger, clock, engine, manager, calls, history>>

NextSynth ==
    AnalyzeEngineer \/ AnalyzeCeremony \/ AnalyzeStoryEngine \/ Synthesize \/ Process

SpecSynth == InitSynth /\ [][NextSynth]_vars

(***************************************************************************)
(* Claims about the synthesis.                                             *)
(***************************************************************************)
\* C2: synthesizePerspectives returns a state carrying the error 'Missing one
\* or more perspectives', with no analysis, leadUniverse or coherenceScore,
\* exactly when at least one of the three perspectives is undefined;
\* otherwise it sets no error and returns an analysis whose leadUniverse is
\* engineer, ceremony or story_engine.
C2_MissingIffUndefined ==
    [][Called("synthesizePerspectives") =>
        LET missing == \/ tus.engineerPerspective = <<>>
                       \/ tus.ceremonyPerspective = <<>>
                       \/ tus.storyEnginePerspective = <<>>
        IN  /\ (tus'.error = "Missing one or more perspectives") <=> missing
            /\ missing =>
                  /\ tus'.analysis = <<>>
                  /\ tus'.leadUniverse = "undefined"
                  /\ tus'.coherenceScore = <<>>
            /\ ~missing =>
                  /\ tus'.error = "undefined"
                  /\ tus'.analysis # <<>>
                  /\ tus'.analysis[1].leadUniverse \in
                        {"engineer", "ceremony", "story_engine"}
                  /\ tus'.leadUniverse = tus'.analysis[1].leadUniverse]_vars

\* C2, as the code behaves on every state: when a perspective is undefined
\* the returned state carries the error and its analysis, leadUniverse and
\* coherenceScore are those of the input state (none, since no analysis
\* exists before all three perspectives do); when none is undefined the
\* returned state carries an analysis whose leadUniverse is engineer,
\* ceremony or story_engine, and its error is the error of the input state:
\* undefined on a state never refused, kept on a state refused earlier.
C2_SynthesisOutcome ==
    [][Called("synthesizePerspectives") =>
        LET missing == \/ tus.engineerPerspective = <<>>
                       \/ tus.ceremonyPerspective = <<>>
                       \/ tus.storyEnginePerspective = <<>>
        IN  /\ missing =>
                  /\ tus'.error = "Missing one or more perspectives"
                  /\ tus'.analysis = <<>>
                  /\ tus'.leadUniverse = "undefined"
                  /\ tus'.coherenceScore = <<>>
            /\ ~missing =>
                  /\ tus'.error = tus.error
                  /\ tus'.analysis # <<>>
                  /\ tus'.analysis[1].leadUniverse \in
                        {"engineer", "ceremony", "story_engine"}
                  /\ tus'.leadUniverse = tus'.analysis[1].leadUniverse
            /\ (tus'.error = "Missing one or more perspectives")
                  <=> (missing \/ tus.error = "Missing one or more perspectives")]_vars

\* the synthesis has just returned an analysis for a state that it had
\* refused before the analyzers ran: the state carries all three
\* perspectives, the analysis and the error of the refusal
C2_Witness ==
    /\ last.op = "synthesizePerspectives"
    /\ tus.engineerPerspective # <<>>
    /\ tus.ceremonyPerspective # <<>>
    /\ tus.storyEnginePerspective # <<>>
    /\ tus.analysis # <<>>
    /\ tus.error = "Missing one or more perspectives"

\* C3: the lead lens of every analysis follows the first of these rules that
\* matches: (1) witnessingNeeded -> ceremony, (2) isCollaborative -> ceremony,
\* (3) dramaticTension > 0.8 -> story_engine, (4) story category climax or
\* turning_point -> story_engine, (5) estimatedComplexity high -> engineer,
\* (6) engineer category security or bug_fix -> engineer, (7) otherwise the
\* lens of highest confidence, equal confidences going to the lens that comes
\* first in the order story_engine, ceremony, engineer.
C3_LeadRules ==
    tus.analysis # <<>> =>
        LET e == tus.analysis[1].engineer
            c == tus.analysis[1].ceremony
            s == tus.analysis[1].storyEngine
            lead == tus.analysis[1].leadUniverse
            r1 == c.context.witnessingNeeded
            r2 == c.context.isCollaborative
            r3 == s.context.dramaticTension > 80
            r4 == s.context.narrativeFunction \in {"climax", "turning_point"}
            r5 == e.context.estimatedComplexity = "high"
            r6 == e.intent \in {"security", "bug_fix"}
            conf == [u \in {"engineer", "ceremony", "story_engine"} |->
                        IF u = "engineer" THEN e.confidence
                        ELSE IF u = "ceremony" THEN c.confidence
                        ELSE s.confidence]
            rank == [u \in {"engineer", "ceremony", "story_engine"} |->
                        IF u = "story_engine" THEN 1
                        ELSE IF u = "ceremony" THEN 2 ELSE 3]
        IN  /\ e = tus.engineerPerspective[1]
            /\ c = tus.ceremonyPerspective[1]
            /\ s = tus.storyEnginePerspective[1]
            /\ lead = tus.leadUniverse
            /\ r1 => lead = "ceremony"
            /\ (~r1 /\ r2) => lead = "ceremony"
            /\ (~r1 /\ ~r2 /\ r3) => lead = "story_engine"
            /\ (~r1 /\ ~r2 /\ ~r3 /\ r4) => lead = "story_engine"
            /\ (~r1 /\ ~r2 /\ ~r3 /\ ~r4 /\ r5) => lead = "engineer"
            /\ (~r1 /\ ~r2 /\ ~r3 /\ ~r4 /\ ~r5 /\ r6) => lead = "engineer"
            /\ (~r1 /\ ~r2 /\ ~r3 /\ ~r4 /\ ~r5 /\ ~r6) =>
                  \A u \in {"engineer", "ceremony", "story_engine"} :
                      \/ conf[lead] > conf[u]
                      \/ conf[lead] = conf[u] /\ rank[lead] <= rank[u]

\* rule 6 has decided for the engineer lens although the ceremony lens is the
\* more confident one, no earlier rule matching
C3_Witness ==
    /\ tus.analysis # <<>>
    /\ tus.leadUniverse = "engineer"
    /\ tus.engineerPerspective[1].intent = "bug_fix"
    /\ tus.engineerPerspective[1].context.estimatedComplexity = "low"
    /\ tus.ceremonyPerspective[1].confidence > tus.engineerPerspective[1].confidence
    /\ ~tus.ceremonyPerspective[1].context.witnessingNeeded
    /\ ~tus.ceremonyPerspective[1].context.isCollaborative

(***************************************************************************)
(* Narrative coherence engine (coherence_engine.ts).                       *)
(*                                                                         *)
(* A component score is the exact fraction num/den (den is 1 except for    *)
(* the theme score, whose mean coverage has the denominator beats *        *)
(* themes); arcPosition and strength are tenths as in the ledger.  An      *)
(* issue is its template text with the name, the number and the list put   *)
(* into it.  The suggestions and the three prose assessments of the        *)
(* Trinity are not modelled, its priorities are.                           *)
(***************************************************************************)
\* Math.max(0.0, Math.min(100.0, baseScore))
ClampScore(score) ==
    Fraction(Max(0, Min(100 * score.den, score.num)), score.den)

\* a status whose thresholds are exclusive: 70 is a warning, 50 is critical
DetermineStatus_exclusive(score) ==
    IF score.num > 70 * score.den THEN "good"
    ELSE IF score.num > 50 * score.den THEN "warning"
    ELSE "critical"

\* "Determine status" at the end of every scorer
DetermineStatus(score) ==
    IF score.num >= 70 * score.den THEN "good"
    ELSE IF score.num >= 50 * score.den THEN "warning"
    ELSE "critical"

createComponentScore(score, status, issues) ==
    [score |-> score, status |-> status, issues |-> issues]

createGap(id, gapType, severity, description, suggestedRoute, component) ==
    [id |-> id, gapType |-> gapType, severity |-> severity,
     description |-> description, location |-> [component |-> component],
     suggestedRoute |-> suggestedRoute, resolved |-> FALSE]

Issue(text, name, n, list) == [text |-> text, name |-> name, n |-> n, list |-> list]

\* The phrases the engine searches issues for that occur in a template
PhrasesIn(text) ==
    CASE text = "Beat {n} escalates without proper setup" -> {"without proper setup"}
      [] text = "Jarring emotional transition at Beat {n}" -> {"Jarring"}
      [] text = "Character '{name}' disappears for {n} beats" -> {"disappears"}
      [] text = "Character '{name}' has minimal arc progression" -> {"minimal arc"}
      [] text = "Found {n} consecutive high-tension beats" ->
            {"consecutive high-tension"}
      [] text = "Theme '{name}' is important but appears rarely" -> {"rarely"}
      [] text = "Theme '{name}' appears often but lacks impact" -> {"lacks impact"}
      [] text = "Beat sequences are not in order" -> {"not in order"}
      [] text = "Duplicate beat sequence numbers found" -> {"Duplicate"}
      [] text = "Missing beat sequences: {list}" -> {"Missing"}
      [] OTHER -> {}

\* issue.includes(phrase); no character or theme name of the inputs contains
\* one of the phrases
IssueIncludes(issue, phrase) ==
    phrase \in PhrasesIn(issue.text) \cup TermsIn(issue.name)

\* issues.filter((i) => i.includes(phrase)).length
CountIssues(issues, phrase) ==
    Cardinality({i \in 1..Len(issues) : IssueIncludes(issues[i], phrase)})

\* analyzeNarrativeFlow that counts a jarring transition once, however many
\* jarring pairs it matches
analyzeNarrativeFlow_oncePerTransition(beats) ==
    LET LowerIncludes(text, word) == word \in TermsIn(ToLowerCase(text))
        Jarring(i) ==
            /\ beats[i - 1].emotionalTone # "" /\ beats[i].emotionalTone # ""
            /\ \E p \in {<<"devastating", "joyful">>, <<"fearful", "peaceful">>,
                          <<"triumphant", "devastating">>} :
                  \/ /\ LowerIncludes(beats[i - 1].emotionalTone, p[1])
                     /\ LowerIncludes(beats[i].emotionalTone, p[2])
                  \/ /\ LowerIncludes(beats[i - 1].emotionalTone, p[2])
                     /\ LowerIncludes(beats[i].emotionalTone, p[1])
        RECURSIVE JarringLoop(_)
        JarringLoop(i) ==
            IF i <= 1 THEN <<>>
            ELSE JarringLoop(i - 1) \o
                 (IF Jarring(i)
                  THEN <<Issue("Jarring emotional transition at Beat {n}", "", i, <<>>)>>
                  ELSE <<>>)
        escalations == {i \in 1..Len(beats) :
                           /\ beats[i].narrativeFunction
                                 \in {"confrontation", "crisis", "climax"}
                           /\ \A k \in 1..i : beats[k].narrativeFunction
                                 \notin {"setup", "introduction", "discovery"}}
        first == CHOOSE i \in escalations : \A k \in escalations : i <= k
        issues == (IF escalations = {} THEN <<>>
                   ELSE <<Issue("Beat {n} escalates without proper setup", "", first,
                                <<>>)>>)
                  \o JarringLoop(Len(beats))
        score == ClampScore(Fraction(85 - CountIssues(issues, "Jarring") * 10
                                        - CountIssues(issues, "without proper setup") * 15,
                                     1))
    IN  IF Len(beats) < 2
        THEN createComponentScore(Fraction(50, 1), DetermineStatus(Fraction(50, 1)),
                                  <<Issue("Too few beats to assess flow", "", 0, <<>>)>>)
        ELSE createComponentScore(score, DetermineStatus(score), issues)

analyzeNarrativeFlow(beats) ==
    LET functions == [i \in 1..Len(beats) |-> beats[i].narrativeFunction]
        \* the loop "Penalize if no setup before confrontation": its issues
        RECURSIVE StructureLoop(_, _, _)
        StructureLoop(i, hasProperStructure, issues) ==
            IF i > Len(functions) THEN issues
            ELSE IF functions[i] \in {"setup", "introduction", "discovery"}
            THEN issues
            ELSE IF functions[i] \in {"confrontation", "crisis", "climax"}
                    /\ ~hasProperStructure
            THEN StructureLoop(i + 1, TRUE,
                      Append(issues,
                             Issue("Beat {n} escalates without proper setup", "", i, <<>>)))
            ELSE StructureLoop(i + 1, hasProperStructure, issues)
        jarringPairs ==
            << <<"devastating", "joyful">>, <<"fearful", "peaceful">>,
               <<"triumphant", "devastating">> >>
        \* text.toLowerCase().includes(word)
        LowerIncludes(text, word) == word \in TermsIn(ToLowerCase(text))
        \* the jarring pairs one transition matches, in the order of jarringPairs
        jarringMatches(prevTone, tone) ==
            SelectSeq(jarringPairs,
                      LAMBDA p : \/ LowerIncludes(prevTone, p[1]) /\ LowerIncludes(tone, p[2])
                                 \/ LowerIncludes(prevTone, p[2]) /\ LowerIncludes(tone, p[1]))
        \* the loop "Check emotional continuity": one issue per matching pair
        RECURSIVE JarringLoop(_)
        JarringLoop(i) ==
            IF i = 0 THEN <<>>
            ELSE IF i > 1 /\ beats[i - 1].emotionalTone # ""
                          /\ beats[i].emotionalTone # ""
            THEN LET matches == jarringMatches(beats[i - 1].emotionalTone,
                                               beats[i].emotionalTone)
                 IN  JarringLoop(i - 1) \o
                     [k \in 1..Len(matches) |->
                        Issue("Jarring emotional transition at Beat {n}", "", i, <<>>)]
            ELSE JarringLoop(i - 1)
    IN  IF Len(beats) < 2
        THEN createComponentScore(Fraction(50, 1), DetermineStatus(Fraction(50, 1)),
                                  <<Issue("Too few beats to assess flow", "", 0, <<>>)>>)
        ELSE LET jarring   == JarringLoop(Len(beats))
                 issues    == StructureLoop(1, FALSE, <<>>) \o jarring
                 jarringTransitions == Len(jarring)
                 baseScore == 85 - jarringTransitions * 10
                                 - CountIssues(issues, "without proper setup") * 15
                 score     == ClampScore(Fraction(baseScore, 1))
             IN  createComponentScore(score, DetermineStatus(score), issues)

\* characterBeats after the two loops that fill it: for every character id
\* the 0-based indexes of the beats carrying it
characterBeats(beats, characters) ==
    [id \in {characters[c].id : c \in 1..Len(characters)} |->
        SelectSeq([i \in 1..Len(beats) |-> i - 1],
                  LAMBDA i : beats[i + 1].characterId = id)]

\* characterBeats[beat.characterId].push(i) on an inherited property, which
\* has no push, raises a TypeError
characterLookupThrows(beats, characters) ==
    \E i \in 1..Len(beats) :
        /\ beats[i].characterId # Undefined
        /\ GetProperty(characterBeats(beats, characters), beats[i].characterId)
              = "inherited"

analyzeCharacterConsistency(beats, characters) ==
    LET appearancesOf == characterBeats(beats, characters)
        \* Object.entries(characterBeats): the ids in the order of their
        \* first character
        RECURSIVE Ids(_)
        Ids(c) == IF c = 0 THEN <<>>
                  ELSE LET rest == Ids(c - 1)
                       IN  IF \E k \in 1..Len(rest) : rest[k] = characters[c].id
                           THEN rest ELSE Append(rest, characters[c].id)
        ids == Ids(Len(characters))
        \* characters.find((c) => c.id === charId)?.name || charId
        characterName(charId) ==
            LET first == CHOOSE c \in 1..Len(characters) :
                            /\ characters[c].id = charId
                            /\ \A k \in 1..(c - 1) : characters[k].id # charId
            IN  IF characters[first].name # "" THEN characters[first].name ELSE charId
        \* "Check for characters with large gaps"
        RECURSIVE GapLoop(_, _)
        GapLoop(charId, i) ==
            IF i < 2 THEN <<>>
            ELSE IF appearancesOf[charId][i] - appearancesOf[charId][i - 1] > 5
            THEN Append(GapLoop(charId, i - 1),
                        Issue("Character '{name}' disappears for {n} beats",
                              characterName(charId),
                              appearancesOf[charId][i] - appearancesOf[charId][i - 1],
                              <<>>))
            ELSE GapLoop(charId, i - 1)
        RECURSIVE AllGaps(_)
        AllGaps(k) == IF k = 0 THEN <<>>
                      ELSE AllGaps(k - 1)
                           \o GapLoop(ids[k], Len(appearancesOf[ids[k]]))
        \* "Check arc progression"
        RECURSIVE ArcLoop(_)
        ArcLoop(c) ==
            IF c = 0 THEN <<>>
            ELSE IF characters[c].arcPosition < 1 /\ Len(beats) > 5
            THEN Append(ArcLoop(c - 1),
                        Issue("Character '{name}' has minimal arc progression",
                              characters[c].name, 0, <<>>))
            ELSE ArcLoop(c - 1)
    IN  IF Len(characters) = 0
        THEN createComponentScore(Fraction(50, 1), DetermineStatus(Fraction(50, 1)),
                                  <<Issue("No character data provided", "", 0, <<>>)>>)
        ELSE LET issues == AllGaps(Len(ids)) \o ArcLoop(Len(characters))
                 baseScore == 90 - CountIssues(issues, "disappears") * 8
                                 - CountIssues(issues, "minimal arc") * 12
                 score == ClampScore(Fraction(baseScore, 1))
             IN  createComponentScore(score, DetermineStatus(score), issues)

\* analyzePacing that penalizes a run of high-tension beats only when it is
\* longer than 3
analyzePacing_longRunsOnly(beats) ==
    LET High(i) == \E ht \in {"confrontation", "crisis", "climax", "revelation"} :
                       ht \in TermsIn(ToLowerCase(beats[i].narrativeFunction))
        climaxes == {i \in 1..Len(beats) :
                        "climax" \in TermsIn(ToLowerCase(beats[i].narrativeFunction))}
        runs == {0} \cup {j - i + 1 : i \in 1..Len(beats), j \in 1..Len(beats)}
        maxRun == CHOOSE n \in runs :
                     /\ n = 0 \/ \E i \in 1..(Len(beats) - n + 1) :
                                    \A k \in i..(i + n - 1) : High(k)
                     /\ \A i \in 1..(Len(beats) - n) : \E k \in i..(i + n) : ~High(k)
        lastClimax == CHOOSE i \in climaxes : \A k \in climaxes : k <= i
        C == IF climaxes = {} THEN 20
             ELSE IF 2 * (lastClimax - 1) < Len(beats) THEN 15 ELSE 0
        score == ClampScore(Fraction(85 - C - (IF maxRun > 3 THEN Min(20, 5 * maxRun)
                                               ELSE 0), 1))
    IN  IF Len(beats) < 3
        THEN createComponentScore(Fraction(50, 1), "warning",
                                  <<Issue("Too few beats to assess pacing", "", 0, <<>>)>>)
        ELSE createComponentScore(score, DetermineStatus(score), <<>>)

analyzePacing(beats) ==
    LET functions == [i \in 1..Len(beats) |->
                         ToLowerCase(beats[i].narrativeFunction)]
        \* 0-based positions of the beats whose function includes "climax"
        climaxPositions ==
            SelectSeq([i \in 1..Len(beats) |-> i - 1],
                      LAMBDA i : "climax" \in TermsIn(functions[i + 1]))
        lastClimax == climaxPositions[Len(climaxPositions)]
        \* lastClimax < total * 0.5
        tooEarly == climaxPositions # <<>> /\ 2 * lastClimax < Len(beats)
        highTensionFuncs == {"confrontation", "crisis", "climax", "revelation"}
        \* maxConsecutive after the loop over the functions
        RECURSIVE TensionLoop(_, _, _)
        TensionLoop(i, consecutiveHigh, maxConsecutive) ==
            IF i > Len(functions) THEN maxConsecutive
            ELSE IF \E ht \in highTensionFuncs : ht \in TermsIn(functions[i])
            THEN TensionLoop(i + 1, consecutiveHigh + 1,
                             Max(maxConsecutive, consecutiveHigh + 1))
            ELSE TensionLoop(i + 1, 0, maxConsecutive)
    IN  IF Len(beats) < 3
        THEN createComponentScore(Fraction(50, 1), DetermineStatus(Fraction(50, 1)),
                                  <<Issue("Too few beats to assess pacing", "", 0, <<>>)>>)
        ELSE LET maxConsecutive == TensionLoop(1, 0, 0)
                 climaxIssues ==
                     IF climaxPositions = <<>>
                     THEN <<Issue("No climax beat identified", "", 0, <<>>)>>
                     ELSE IF tooEarly
                     THEN <<Issue("Climax occurs too early in the narrative", "", 0, <<>>)>>
                     ELSE <<>>
                 tensionIssues ==
                     IF maxConsecutive > 3
                     THEN <<Issue("Found {n} consecutive high-tension beats", "",
                                  maxConsecutive, <<>>)>>
                     ELSE <<>>
                 baseScore == 85 - (IF climaxPositions = <<>> THEN 20
                                    ELSE IF tooEarly THEN 15 ELSE 0)
                                 - Min(20, maxConsecutive * 5)
                 score == ClampScore(Fraction(baseScore, 1))
             IN  createComponentScore(score, DetermineStatus(score),
                                      climaxIssues \o tensionIssues)

analyzeThemeSaturation(beats, themes) ==
    LET total == Max(Len(beats), 1)
        \* beatsWithTheme: the beats whose thematicTags include the theme id
        beatsWithTheme(theme) ==
            Cardinality({i \in 1..Len(beats) :
                            \E t \in 1..Len(beats[i].thematicTags) :
                                beats[i].thematicTags[t] = theme.id})
        OfTheme(theme) ==
            \* coverage < 0.2 && theme.strength > 0.5
            (IF 5 * beatsWithTheme(theme) < total /\ theme.strength > 5
             THEN <<Issue("Theme '{name}' is important but appears rarely",
                          theme.name, 0, <<>>)>>
             ELSE <<>>)
            \o
            \* coverage > 0.3 && theme.strength < 0.3
            (IF 10 * beatsWithTheme(theme) > 3 * total /\ theme.strength < 3
             THEN <<Issue("Theme '{name}' appears often but lacks impact",
                          theme.name, 0, <<>>)>>
             ELSE <<>>)
        RECURSIVE ThemeLoop(_)
        ThemeLoop(t) == IF t = 0 THEN <<>> ELSE ThemeLoop(t - 1) \o OfTheme(themes[t])
        \* themeCoverage is keyed by theme.name: a later theme of the same
        \* name overwrites the entry
        names == {themes[t].name : t \in 1..Len(themes)}
        LastOf(name) == CHOOSE t \in 1..Len(themes) :
                            /\ themes[t].name = name
                            /\ \A u \in (t + 1)..Len(themes) : themes[u].name # name
        \* the sum of the entries, counted in beats
        RECURSIVE Sum(_)
        Sum(S) == IF S = {} THEN 0
                  ELSE LET name == CHOOSE x \in S : TRUE
                       IN  beatsWithTheme(themes[LastOf(name)]) + Sum(S \ {name})
    IN  IF Len(themes) = 0
        THEN createComponentScore(Fraction(50, 1), DetermineStatus(Fraction(50, 1)),
                                  <<Issue("No themes defined", "", 0, <<>>)>>)
        ELSE LET issues   == ThemeLoop(Len(themes))
                 \* avgCoverage = Sum(names) / den
                 den      == total * Max(Cardinality(names), 1)
                 \* Math.min(100.0, avgCoverage * 100 + 20)
                 buffered == Min(100 * den, Sum(names) * 100 + 20 * den)
                 baseScore == buffered - CountIssues(issues, "rarely") * 10 * den
                                       - CountIssues(issues, "lacks impact") * 8 * den
                 score    == ClampScore(Fraction(baseScore, den))
             IN  createComponentScore(score, DetermineStatus(score), issues)

\* analyzeContinuity that reports and penalizes missing sequence values
\* however many are missing
analyzeContinuity_everyGap(beats) ==
    LET sequences == [i \in 1..Len(beats) |-> beats[i].sequence]
        actual == {sequences[i] : i \in 1..Len(sequences)}
        issues ==
            (IF \E i \in 1..(Len(sequences) - 1) : sequences[i] > sequences[i + 1]
             THEN <<Issue("Beat sequences are not in order", "", 0, <<>>)>>
             ELSE <<>>)
            \o
            (IF Len(sequences) # Cardinality(actual)
             THEN <<Issue("Duplicate beat sequence numbers found", "", 0, <<>>)>>
             ELSE <<>>)
            \o
            (IF \E x \in 1..100 : x \notin actual /\ \E y \in actual : x < y
             THEN <<Issue("Missing beat sequences: {list}", "", 0, <<>>)>>
             ELSE <<>>)
        score == ClampScore(Fraction(90 - CountIssues(issues, "not in order") * 20
                                        - CountIssues(issues, "Duplicate") * 15
                                        - CountIssues(issues, "Missing") * 5, 1))
    IN  IF Len(beats) < 2
        THEN createComponentScore(Fraction(70, 1), DetermineStatus(Fraction(70, 1)),
                                  <<Issue("Too few beats for continuity analysis", "", 0, <<>>)>>)
        ELSE createComponentScore(score, DetermineStatus(score), issues)

analyzeContinuity(beats) ==
    LET sequences == [i \in 1..Len(beats) |-> beats[i].sequence]
        \* [...sequences].sort((a, b) => a - b) leaves the list as it is
        \* exactly when it is non-decreasing
        notInOrder ==
            \E i \in 1..(Len(sequences) - 1) : sequences[i] > sequences[i + 1]
        \* String(a) < String(b) for numbers below 100: the default order of
        \* Array.prototype.sort
        Digits(x) == IF x < 10 THEN <<x>> ELSE <<x \div 10, x % 10>>
        DecimalBefore(a, b) ==
            \/ Digits(a)[1] < Digits(b)[1]
            \/ Digits(a)[1] = Digits(b)[1] /\ Len(Digits(a)) < Len(Digits(b))
            \/ Digits(a)[1] = Digits(b)[1] /\ Len(Digits(a)) = 2 /\ Len(Digits(b)) = 2
                  /\ Digits(a)[2] < Digits(b)[2]
        \* missing.sort()
        RECURSIVE Sorted(_)
        Sorted(R) == IF R = {} THEN <<>>
                     ELSE LET least == CHOOSE x \in R :
                                          \A y \in R \ {x} : DecimalBefore(x, y)
                          IN  <<least>> \o Sorted(R \ {least})
    IN  IF Len(beats) < 2
        THEN createComponentScore(Fraction(70, 1), DetermineStatus(Fraction(70, 1)),
                                  <<Issue("Too few beats for continuity analysis", "", 0, <<>>)>>)
        ELSE LET actual    == {sequences[i] : i \in 1..Len(sequences)}
                 maxSeq    == CHOOSE m \in actual : \A x \in actual : x <= m
                 missing   == (1..maxSeq) \ actual
                 issues ==
                     (IF notInOrder
                      THEN <<Issue("Beat sequences are not in order", "", 0, <<>>)>>
                      ELSE <<>>)
                     \o
                     (IF Len(sequences) # Cardinality(actual)
                      THEN <<Issue("Duplicate beat sequence numbers found", "", 0, <<>>)>>
                      ELSE <<>>)
                     \o
                     (IF Cardinality(missing) > 0 /\ Cardinality(missing) <= 3
                      THEN <<Issue("Missing beat sequences: {list}", "", 0,
                                   Sorted(missing))>>
                      ELSE <<>>)
                 baseScore == 90 - CountIssues(issues, "not in order") * 20
                                 - CountIssues(issues, "Duplicate") * 15
                                 - CountIssues(issues, "Missing") * 5
                 score == ClampScore(Fraction(baseScore, 1))
             IN  createComponentScore(score, DetermineStatus(score), issues)

\* the plain mean of the component scores, every weight being 1
calculateOverallScore_unweighted(components) ==
    LET RECURSIVE Product(_)
        Product(i) == IF i = 0 THEN 1 ELSE components[i].score.den * Product(i - 1)
        common == Product(Len(components))
        RECURSIVE Sum(_)
        Sum(i) == IF i = 0 THEN 0
                  ELSE Sum(i - 1) + components[i].score.num
                                      * (common \div components[i].score.den)
    IN  Fraction(Sum(Len(components)), Len(components) * common)

\* weightedSum / totalWeight over the five component scores
calculateOverallScore(components) ==
    LET \* the weights 1.2, 1.2, 1.0, 1.0, 0.8 in tenths
        weights == <<12, 12, 10, 10, 8>>
        RECURSIVE Product(_)
        Product(i) == IF i = 0 THEN 1 ELSE components[i].score.den * Product(i - 1)
        common == Product(Len(components))
        RECURSIVE WeightedSum(_)
        WeightedSum(i) ==
            IF i = 0 THEN 0
            ELSE WeightedSum(i - 1)
                 + weights[i] * components[i].score.num
                     * (common \div components[i].score.den)
        RECURSIVE TotalWeight(_)
        TotalWeight(i) == IF i = 0 THEN 0 ELSE weights[i] + TotalWeight(i - 1)
    IN  Fraction(WeightedSum(Len(components)), TotalWeight(Len(components)) * common)

\* gaps.sort((a, b) => severityOrder[a.severity] - severityOrder[b.severity]):
\* Array.prototype.sort is stable
sortBySeverity(gaps) ==
    LET severityOrder(severity) ==
            CASE severity = "critical" -> 0
              [] severity = "moderate" -> 1
              [] severity = "minor" -> 2
        RECURSIVE Insert(_, _)
        Insert(sorted, gap) ==
            IF sorted = <<>> THEN <<gap>>
            ELSE IF severityOrder(sorted[Len(sorted)].severity)
                        - severityOrder(gap.severity) > 0
            THEN Append(Insert(SubSeq(sorted, 1, Len(sorted) - 1), gap),
                        sorted[Len(sorted)])
            ELSE Append(sorted, gap)
        RECURSIVE Sort(_)
        Sort(i) == IF i = 0 THEN <<>> ELSE Insert(Sort(i - 1), gaps[i])
    IN  Sort(Len(gaps))

\* the loop of identifyGaps over componentMappings: the gaps in the order
\* of their extraction, before the sort
extractGaps(gapCounter, components) ==
    LET componentMappings ==
            << [key |-> "narrativeFlowScore", gapType |-> "structural"],
               [key |-> "characterConsistencyScore", gapType |-> "character"],
               [key |-> "pacingScore", gapType |-> "structural"],
               [key |-> "themeSaturationScore", gapType |-> "thematic"],
               [key |-> "continuityScore", gapType |-> "continuity"] >>
        \* "Determine severity"
        severity(component, issue) ==
            IF component.status = "critical" THEN "critical"
            ELSE IF IssueIncludes(issue, "rarely") \/ IssueIncludes(issue, "disappears")
            THEN "moderate"
            ELSE "minor"
        \* "Determine routing"
        route(gapType) ==
            IF gapType = "structural" THEN "structurist"
            ELSE IF gapType = "character" THEN "storyteller"
            ELSE IF gapType = "thematic" THEN "structurist"
            ELSE IF gapType = "sensory" THEN "storyteller"
            ELSE "author"
        \* this.gapCounter += 1; return `gap_${this.gapCounter}`
        generateGapId(counter) == <<"gap_", counter + 1>>
        RECURSIVE OfComponent(_, _, _)
        OfComponent(c, i, counter) ==
            \* the gaps of the issues i.. of component c
            IF i > Len(components[c].issues) THEN <<>>
            ELSE <<createGap(generateGapId(counter),
                             componentMappings[c].gapType,
                             severity(components[c], components[c].issues[i]),
                             components[c].issues[i],
                             route(componentMappings[c].gapType),
                             componentMappings[c].key)>>
                 \o OfComponent(c, i + 1, counter + 1)
        RECURSIVE All(_, _)
        All(c, counter) ==
            IF c > Len(components) THEN <<>>
            ELSE OfComponent(c, 1, counter)
                 \o All(c + 1, counter + Len(components[c].issues))
    IN  All(1, gapCounter)

\* identifyGaps that leaves the gaps in the order of their extraction
identifyGaps_unsorted(gapCounter, components) ==
    LET gaps == extractGaps(gapCounter, components)
    IN  [gaps |-> gaps, gapCounter |-> gapCounter + Len(gaps)]

\* identifyGaps whose ids are scoped to the call: gap_1, gap_2, ... in every
\* result
identifyGaps_callScoped(gapCounter, components) ==
    LET gaps == extractGaps(0, components)
    IN  [gaps |-> sortBySeverity(gaps), gapCounter |-> gapCounter + Len(gaps)]

\* identifyGaps that keeps one gap per distinct description
identifyGaps_distinct(gapCounter, components) ==
    LET gaps == extractGaps(gapCounter, components)
        firsts == {i \in 1..Len(gaps) :
                     \A k \in 1..(i - 1) : gaps[k].description # gaps[i].description}
        RECURSIVE Keep(_)
        Keep(i) == IF i = 0 THEN <<>>
                   ELSE IF i \in firsts THEN Append(Keep(i - 1), gaps[i])
                   ELSE Keep(i - 1)
    IN  [gaps |-> sortBySeverity(Keep(Len(gaps))),
         gapCounter |-> gapCounter + Len(gaps)]

\* identifyGaps that reports a critical theme score without issues as a gap
\* of its own
identifyGaps_criticalScore(gapCounter, components) ==
    LET gaps == extractGaps(gapCounter, components)
        own == IF components[4].status = "critical" /\ components[4].issues = <<>>
               THEN <<createGap(<<"gap_", gapCounter + Len(gaps) + 1>>, "thematic",
                                "critical", Issue("Theme saturation is critical", "", 0, <<>>),
                                "structurist", "themeSaturationScore")>>
               ELSE <<>>
    IN  [gaps |-> sortBySeverity(gaps \o own),
         gapCounter |-> gapCounter + Len(gaps) + Len(own)]

identifyGaps(gapCounter, components) ==
    LET gaps == extractGaps(gapCounter, components)
    IN  [gaps |-> sortBySeverity(gaps), gapCounter |-> gapCounter + Len(gaps)]

\* the priorities of generateTrinityAssessment
trinityPriorities(gaps) ==
    LET criticalGaps == SelectSeq(gaps, LAMBDA g : g.severity = "critical")
        moderateGaps == SelectSeq(gaps, LAMBDA g : g.severity = "moderate")
        FirstThree(list) ==
            [i \in 1..Min(3, Len(list)) |-> list[i].description]
        priorities == IF Len(criticalGaps) > 0 THEN FirstThree(criticalGaps)
                      ELSE IF Len(moderateGaps) > 0 THEN FirstThree(moderateGaps)
                      ELSE <<>>
    IN  IF Len(priorities) = 0
        THEN <<Issue("Minor polish items only - narrative is coherent", "", 0, <<>>)>>
        ELSE priorities

\* state.overallScore || 50.0 and the five component scores
buildCoherenceResult(overallScore, components) ==
    [overall |-> IF overallScore.num = 0 THEN Fraction(50, 1) ELSE overallScore,
     narrativeFlow |-> components[1],
     characterConsistency |-> components[2],
     pacing |-> components[3],
     themeSaturation |-> components[4],
     continuity |-> components[5]]

\* NarrativeCoherenceEngine.analyze(beats, characters, themes) on an engine
\* whose gap counter is gapCounter: the counter afterwards, the result,
\* and whether the call threw
analyze(gapCounter, beats, characters, themes) ==
    IF Len(characters) > 0 /\ characterLookupThrows(beats, characters)
    THEN [gapCounter |-> gapCounter, result |-> Absent, thrown |-> TRUE]
    ELSE LET components ==
                 << analyzeNarrativeFlow(beats),
                    analyzeCharacterConsistency(beats, characters),
                    analyzePacing(beats),
                    analyzeThemeSaturation(beats, themes),
                    analyzeContinuity(beats) >>
             overallScore == calculateOverallScore(components)
             identified   == identifyGaps(gapCounter, components)
         IN  [gapCounter |-> identified.gapCounter,
              result |-> Some([coherenceScore |->
                                  buildCoherenceResult(overallScore, components),
                               gaps |-> identified.gaps,
                               trinityAssessment |->
                                  [priorities |-> trinityPriorities(identified.gaps)]]),
              thrown |-> FALSE]

(***************************************************************************)
(* Inputs of the engine.                                                   *)
(***************************************************************************)
MaxMiddle == 5          \* repetitions of the middle beat of a narrative
MaxGapCounter == 8      \* analyze is called while the gap counter is below

EngineBeatInputs ==
    LET StoryBeat(id, sequence, narrativeFunction, emotionalTone, thematicTags,
                  characterId) ==
            [id |-> id, sequence |-> sequence,
             narrativeFunction |-> narrativeFunction,
             emotionalTone |-> emotionalTone, thematicTags |-> thematicTags,
             characterId |-> characterId]
    IN  {StoryBeat("beat_1", 1, "crisis", "devastating", <<"theme_1">>, "hero"),
         StoryBeat("beat_2", 2, "beat", "Joyful and Triumphant", <<"theme_1">>,
                   Undefined),
         StoryBeat("beat_3", 3, "setup", "neutral", <<"theme_4">>, Undefined),
         StoryBeat("beat_4", 4, "Climax", "", <<"theme_1", "theme_3">>, "hero"),
         StoryBeat("beat_6", 6, "beat", "neutral", <<>>, "constructor")}

\* the narratives: none, one beat, or an opening beat, a middle beat
\* repeated, and a closing beat
EngineBeatLists ==
    {<<>>} \cup {<<b>> : b \in EngineBeatInputs}
    \cup {<<opening>> \o [i \in 1..k |-> middle] \o <<closing>> :
             opening \in EngineBeatInputs, middle \in EngineBeatInputs,
             closing \in EngineBeatInputs, k \in 0..MaxMiddle}

EngineCharacterLists ==
    LET CharacterState(id, name, arcPosition) ==
            [id |-> id, name |-> name, arcPosition |-> arcPosition]
    IN  {<<>>,
         <<CharacterState("hero", "Hero", 0)>>,
         <<CharacterState("hero", "Hero", 5), CharacterState("mentor", "Mentor", 0)>>,
         <<CharacterState("hero", "Hero", 0), CharacterState("mentor", "Mentor", 0),
           CharacterState("rival", "Rival", 0), CharacterState("child", "", 0)>>}

EngineThemeLists ==
    LET ThematicThread(id, name, strength) ==
            [id |-> id, name |-> name, strength |-> strength]
        redemption == ThematicThread("theme_1", "Redemption", 7)
        sacrifice  == ThematicThread("theme_2", "Sacrifice", 7)
        hope       == ThematicThread("theme_3", "Hope", 2)
        duty       == ThematicThread("theme_4", "Duty", 5)
    IN  {<<>>, <<redemption>>, <<redemption, sacrifice>>, <<sacrifice, redemption>>,
         <<hope>>, <<duty>>, <<sacrifice, hope>>}

(***************************************************************************)
(* SpecEngine: one engine instance analyzing one narrative, repeatedly.    *)
(***************************************************************************)
InitEngine ==
    /\ clock = 0
    /\ ledger = createUnifiedNarrativeState(0)
    /\ last = NoCall
    /\ thrown = FALSE
    /\ tus = Absent
    /\ manager = NarrativeRedisManager
    /\ calls = <<>>
    /\ history = [begun |-> 0, routine |-> TRUE, alone |-> TRUE,
                  first |-> "none", kept |-> TRUE]
    /\ \E beats \in EngineBeatLists, characters \in EngineCharacterLists,
          themes \in EngineThemeLists :
            engine = [gapCounter |-> 0, beats |-> beats, characters |-> characters,
                      themes |-> themes, result |-> Absent]

Analyze ==
    LET r == analyze(engine.gapCounter, engine.beats, engine.characters, engine.themes)
    IN  /\ engine.gapCounter < MaxGapCounter
        /\ engine' = [engine EXCEPT !.gapCounter = r.gapCounter,
                                    !.result = IF r.thrown THEN @ ELSE r.result]
        /\ thrown' = r.thrown
        /\ last' = [op |-> "analyze"]
        /\ UNCHANGED <<ledger, clock, tus, manager, calls, history>>

NextEngine == Analyze

SpecEngine == InitEngine /\ [][NextEngine]_vars

(***************************************************************************)
(* Claims about the coherence engine.                                      *)
(***************************************************************************)
\* C4: in every result of analyze a gap is critical only if the component
\* score it was extracted from has status critical; the gap list is ordered
\* critical, then moderate, then minor; and gaps of equal severity stand in
\* the order of their extraction (flow, character, pacing, theme, continuity,
\* issue order within a component), the k-th extracted issue carrying the
\* k-th gap id of the call.
C4_CriticalOnlyIfCritical ==
    engine.result # <<>> =>
        LET result == engine.result[1]
            score  == result.coherenceScore
            gaps   == result.gaps
            \* the component score a gap names as its source
            Source(g) ==
                LET key == g.location.component
                IN  IF key = "narrativeFlowScore" THEN score.narrativeFlow
                    ELSE IF key = "characterConsistencyScore"
                    THEN score.characterConsistency
                    ELSE IF key = "pacingScore" THEN score.pacing
                    ELSE IF key = "themeSaturationScore" THEN score.themeSaturation
                    ELSE score.continuity
            Tag(component, key) ==
                [i \in 1..Len(component.issues) |->
                    [component |-> key, issue |-> component.issues[i]]]
            \* the issues of the result in the order of extraction
            order  == Tag(score.narrativeFlow, "narrativeFlowScore")
                      \o Tag(score.characterConsistency, "characterConsistencyScore")
                      \o Tag(score.pacing, "pacingScore")
                      \o Tag(score.themeSaturation, "themeSaturationScore")
                      \o Tag(score.continuity, "continuityScore")
            first  == engine.gapCounter - Len(gaps)
            Rank(g) == IF g.severity = "critical" THEN 0
                       ELSE IF g.severity = "moderate" THEN 1 ELSE 2
            \* the place of a gap in the extraction order, from its id
            Place(g) == g.id[2] - first
        IN  /\ \A i \in 1..Len(gaps) :
                  gaps[i].severity = "critical" => Source(gaps[i]).status = "critical"
            /\ Len(gaps) = Len(order)
            /\ \A i \in 1..Len(gaps) :
                  /\ Place(gaps[i]) \in 1..Len(order)
                  /\ order[Place(gaps[i])].issue = gaps[i].description
                  /\ order[Place(gaps[i])].component = gaps[i].location.component
            /\ \A i, j \in 1..Len(gaps) :
                  i < j =>
                      \/ Rank(gaps[i]) < Rank(gaps[j])
                      \/ Rank(gaps[i]) = Rank(gaps[j])
                            /\ Place(gaps[i]) < Place(gaps[j])

\* a result whose two critical pacing gaps stand before a moderate theme gap
\* and three minor gaps of flow, character and continuity, in that order
C4_Witness ==
    /\ engine.result # <<>>
    /\ Len(engine.result[1].gaps) = 6
    /\ engine.result[1].coherenceScore.pacing.status = "critical"
    /\ engine.result[1].coherenceScore.narrativeFlow.status # "critical"
    /\ [i \in 1..6 |-> engine.result[1].gaps[i].severity] =
          <<"critical", "critical", "moderate", "minor", "minor", "minor">>
    /\ [i \in 1..6 |-> engine.result[1].gaps[i].location.component] =
          <<"pacingScore", "pacingScore", "themeSaturationScore",
            "narrativeFlowScore", "characterConsistencyScore", "continuityScore">>

(***************************************************************************)
(* addRoutingDecision, calculateCoherence (unified_state_bridge.ts).       *)
(* The coherenceScore of a decision is in hundredths; the value returned   *)
(* and overallCoherence are exact fractions.                               *)
(***************************************************************************)
CoherenceWindow == 20   \* state.routingDecisions.slice(-20)

addRoutingDecision(state, decision, now) ==
    [state EXCEPT !.routingDecisions = Append(state.routingDecisions, decision),
                  !.updatedAt = now]

\* mutant: the mean is taken over all routing decisions
calculateCoherence_all(state) ==
    LET coherences == [i \in 1..Len(state.routingDecisions) |->
                          state.routingDecisions[i].universeAnalysis.coherenceScore]
        RECURSIVE Reduce(_)
        Reduce(i) == IF i = 0 THEN 0 ELSE Reduce(i - 1) + coherences[i]
        mean == Fraction(Reduce(Len(coherences)), 100 * Len(coherences))
    IN  IF Len(state.routingDecisions) = 0
        THEN [state |-> state, value |-> Fraction(DefaultCoherence, 10)]
        ELSE [state |-> [state EXCEPT !.overallCoherence = mean], value |-> mean]

\* the state after the call and the value returned
calculateCoherence(state) ==
    LET recentDecisions == ArraySlice(state.routingDecisions, 0 - CoherenceWindow)
        coherences == [i \in 1..Len(recentDecisions) |->
                          recentDecisions[i].universeAnalysis.coherenceScore]
        \* coherences.reduce((a, b) => a + b, 0)
        RECURSIVE Reduce(_)
        Reduce(i) == IF i = 0 THEN 0 ELSE Reduce(i - 1) + coherences[i]
        mean == Fraction(Reduce(Len(coherences)), 100 * Len(coherences))
    IN  IF Len(state.routingDecisions) = 0
        THEN [state |-> state, value |-> Fraction(DefaultCoherence, 10)]
        ELSE [state |-> [state EXCEPT !.overallCoherence = mean], value |-> mean]

\* createRoutingDecision: the field calculateCoherence reads, and the id
RoutingDecisionInputs ==
    {[id |-> "rd_low", universeAnalysis |-> [coherenceScore |-> 20]],
     [id |-> "rd_high", universeAnalysis |-> [coherenceScore |-> 80]]}

AddRoutingDecision(decision) ==
    /\ ledger' = addRoutingDecision(ledger, decision, clock)
    /\ last' = [op |-> "addRoutingDecision", decision |-> decision]
    /\ thrown' = FALSE
    /\ UNCHANGED <<clock, tus, engine, manager, calls, history>>

CalculateCoherence ==
    LET r == calculateCoherence(ledger)
    IN  /\ ledger' = r.state
        /\ last' = [op |-> "calculateCoherence", result |-> r.value]
        /\ thrown' = FALSE
        /\ UNCHANGED <<clock, tus, engine, manager, calls, history>>

(***************************************************************************)
(* SpecCoherence: routing decisions and the rolling coherence.             *)
(***************************************************************************)
CoherenceAdd ==
    \E decision \in RoutingDecisionInputs :
        /\ Len(ledger.routingDecisions) < MaxDecisions
        /\ decision.id = "rd_high" =>
              Len(SelectSeq(ledger.routingDecisions, LAMBDA rd : rd.id = "rd_high"))
                  < MaxCoherent
        /\ AddRoutingDecision(decision)

NextCoherence == Tick \/ CoherenceAdd \/ CalculateCoherence

SpecCoherence == InitLedger /\ [][NextCoherence]_vars

\* C11: calculateCoherence returns 0.5 when the ledger has no routing
\* decisions, otherwise the arithmetic mean of universeAnalysis.coherenceScore
\* over the last min(20, count) routing decisions; after the call the
\* ledger's overallCoherence equals the value returned and no other ledger
\* field has changed.
C11_RollingCoherence ==
    [][Called("calculateCoherence") =>
        LET decisions == ledger.routingDecisions
            n == Len(decisions)
            k == Min(20, n)
            RECURSIVE SumLast(_)
            SumLast(j) ==
                IF j = 0 THEN 0
                ELSE SumLast(j - 1)
                     + decisions[n - j + 1].universeAnalysis.coherenceScore
            r == last'.result
            after == ledger'.overallCoherence
        IN  /\ n = 0 => 2 * r.num = r.den
            /\ n > 0 => r.num * 100 * k = SumLast(k) * r.den
            /\ after.num * r.den = r.num * after.den
            /\ [ledger' EXCEPT !.overallCoherence = ledger.overallCoherence]
                  = ledger]_vars

\* calculateCoherence has just been called on 21 decisions of which only the
\* oldest, outside the window, has the high coherence: the value is 0.2
C11_Witness ==
    /\ last.op = "calculateCoherence"
    /\ Len(ledger.routingDecisions) = 21
    /\ ledger.routingDecisions[1].universeAnalysis.coherenceScore = 80
    /\ last.result.num * 10 = 2 * last.result.den
    /\ ledger.overallCoherence = last.result

(***************************************************************************)
(* Claims about the three lens classifiers.                                *)
(***************************************************************************)
\* intentScores of a lens for an event when the arg-max is taken: its
\* entries in insertion order
intentScores(lens, event) ==
    IF lens = "engineer"
    THEN IntentScores(engineerIntentKeywords,
                      StringToLowerCase(engineerContent(event)))
    ELSE IF lens = "ceremony"
    THEN LET keywordScores ==
                 IntentScores(ceremonyIntentKeywords,
                              StringToLowerCase(extractContent(event)))
         IN  IF Len(extractContributors(event)) > 1
             THEN addCoCreationBonus(keywordScores)
             ELSE keywordScores
    ELSE IntentScores(storyEngineIntentKeywords,
                      StringToLowerCase(extractContent(event)))

\* the lexicon of a lens
intentKeywords(lens) ==
    IF lens = "engineer" THEN engineerIntentKeywords
    ELSE IF lens = "ceremony" THEN ceremonyIntentKeywords
    ELSE storyEngineIntentKeywords

\* the perspective of a lens in a state, Absent when the lens has not run
PerspectiveOf(state, lens) ==
    IF lens = "engineer" THEN state.engineerPerspective
    ELSE IF lens = "ceremony" THEN state.ceremonyPerspective
    ELSE state.storyEnginePerspective

\* C12 as stated: in each lens the winning category has the maximum score
\* among the categories scoring above 0, and of several categories with the
\* maximum score the first in the lexicon's enumeration order wins.
C12_FirstOfTiesWins ==
    \A lens \in Universe :
        LET entries == intentScores(lens, tus.event)
            keywords == intentKeywords(lens)
            Rank(intent) == CHOOSE i \in 1..Len(keywords) : keywords[i].intent = intent
            winner == PerspectiveOf(tus, lens)[1].intent
        IN  (tus # <<>> /\ PerspectiveOf(tus, lens) # <<>> /\ entries # <<>>) =>
                \E w \in 1..Len(entries) :
                    /\ entries[w].intent = winner
                    /\ \A e \in 1..Len(entries) :
                          /\ entries[e].score <= entries[w].score
                          /\ entries[e].score = entries[w].score =>
                                Rank(winner) <= Rank(entries[e].intent)

\* C12 amended: in each lens the winning category has the maximum score
\* among the categories scoring above 0, and of several categories with the
\* maximum score the one entered last wins: the last in the lexicon's
\* enumeration order, except that a co_creation score made of the
\* contributor bonus alone is entered after all keyword scores.
C12_LastOfTiesWins ==
    \A lens \in Universe :
        LET entries == intentScores(lens, tus.event)
            keywords == intentKeywords(lens)
            keywordHit(intent) ==
                \E k \in 1..Len(IntentScores(keywords,
                                  StringToLowerCase(IF lens = "engineer"
                                                    THEN engineerContent(tus.event)
                                                    ELSE extractContent(tus.event)))) :
                    IntentScores(keywords,
                                 StringToLowerCase(IF lens = "engineer"
                                                   THEN engineerContent(tus.event)
                                                   ELSE extractContent(tus.event)))[k].intent
                        = intent
            Rank(intent) ==
                IF keywordHit(intent)
                THEN CHOOSE i \in 1..Len(keywords) : keywords[i].intent = intent
                ELSE Len(keywords) + 1
            winner == PerspectiveOf(tus, lens)[1].intent
        IN  (tus # <<>> /\ PerspectiveOf(tus, lens) # <<>> /\ entries # <<>>) =>
                \E w \in 1..Len(entries) :
                    /\ entries[w].intent = winner
                    /\ \A e \in 1..Len(entries) :
                          /\ entries[e].score <= entries[w].score
                          /\ entries[e].score = entries[w].score =>
                                Rank(winner) >= Rank(entries[e].intent)

\* the engineer lens has classified a text in which feature_implementation
\* and bug_fix both score 1/6, the maximum: bug_fix, the later one, has won
C12_Witness ==
    /\ tus # <<>>
    /\ tus.engineerPerspective # <<>>
    /\ LET entries == intentScores("engineer", tus.event)
       IN  /\ Len(entries) = 2
           /\ entries[1].intent = "feature_implementation"
           /\ entries[2].intent = "bug_fix"
           /\ entries[1].score = entries[2].score
    /\ tus.engineerPerspective[1].intent = "bug_fix"

\* C13 as stated: the confidence of every perspective lies between the
\* no-match constant of its lens and 0.95: Engineer in [0.5, 0.95], Ceremony
\* in [0.6, 0.95], Story-Engine in [0.5, 0.95].
C13_AtLeastFallback ==
    \A lens \in Universe :
        (tus # <<>> /\ PerspectiveOf(tus, lens) # <<>>) =>
            LET confidence == PerspectiveOf(tus, lens)[1].confidence
                fallback == IF lens = "ceremony" THEN FixedConfidence(60)
                            ELSE FixedConfidence(50)
            IN  confidence >= fallback /\ confidence <= FixedConfidence(95)

\* C13 amended: Engineer in [0.5, 0.95], Story-Engine in [0.5, 0.95] and
\* Ceremony in [0.5 + 0.4/6, 0.95]; a lens without a scoring category answers
\* its no-match constant (0.5, 0.6, 0.5), a lens with one answers more than
\* its base (0.6, 0.5, 0.55), which for Ceremony is below the no-match
\* constant.
C13_ConfidenceRange ==
    \A lens \in Universe :
        (tus # <<>> /\ PerspectiveOf(tus, lens) # <<>>) =>
            LET confidence == PerspectiveOf(tus, lens)[1].confidence
                matched == intentScores(lens, tus.event) # <<>>
                fallback == IF lens = "ceremony" THEN FixedConfidence(60)
                            ELSE FixedConfidence(50)
                base == IF lens = "engineer" THEN FixedConfidence(60)
                        ELSE IF lens = "ceremony" THEN FixedConfidence(50)
                        ELSE FixedConfidence(55)
                \* 0.5 + 0.4/6
                least == IF lens = "ceremony"
                         THEN FixedConfidence(50) + (4 * ConfidenceScale) \div 60
                         ELSE FixedConfidence(50)
            IN  /\ confidence >= least /\ confidence <= FixedConfidence(95)
                /\ ~matched => confidence = fallback
                /\ matched => confidence > base

\* all three lenses have run on a text with every configuration keyword:
\* the engineer score 1.0 would give 1.0 and the confidence is 0.95
C13_Witness ==
    /\ tus # <<>>
    /\ tus.engineerPerspective # <<>>
    /\ tus.ceremonyPerspective # <<>>
    /\ tus.storyEnginePerspective # <<>>
    /\ \E e \in 1..Len(intentScores("engineer", tus.event)) :
          intentScores("engineer", tus.event)[e].score = ScoreScale
    /\ tus.engineerPerspective[1].confidence = FixedConfidence(95)

\* C14: in the Ceremony classifier, with more than one distinct contributor
\* (sender, commit authors, issue author, pull-request author) isCollaborative
\* is true and the co_creation score is its keyword score plus 0.5 when the
\* maximum is taken, so the category is co_creation, with the confidence of
\* the boosted score, whenever every other category scores strictly lower,
\* the text without any ceremony keyword included; with at most one
\* contributor isCollaborative is false and no bonus is added.
C14_CoCreationBonus ==
    (tus # <<>> /\ tus.ceremonyPerspective # <<>>) =>
        LET event == tus.event
            payload == event.payload[1]
            names ==
                {event.sender}
                \cup (IF event.payload # <<>> /\ payload.commits # <<>>
                      THEN {payload.commits[1][i].author :
                                i \in 1..Len(payload.commits[1])}
                      ELSE {})
                \cup (IF event.payload # <<>> /\ payload.issue # <<>>
                      THEN {payload.issue[1].user} ELSE {})
                \cup (IF event.payload # <<>> /\ payload.pull_request # <<>>
                      THEN {payload.pull_request[1].user} ELSE {})
            distinct == Cardinality(names \ {Undefined})
            keywordScores == IntentScores(ceremonyIntentKeywords,
                                          StringToLowerCase(extractContent(event)))
            Score(entries, intent) ==
                IF \E i \in 1..Len(entries) : entries[i].intent = intent
                THEN entries[CHOOSE i \in 1..Len(entries) :
                                entries[i].intent = intent].score
                ELSE 0
            boosted == Score(keywordScores, "co_creation") + ScoreScale \div 2
            perspective == tus.ceremonyPerspective[1]
        IN  /\ perspective.context.isCollaborative = (distinct > 1)
            /\ distinct > 1 =>
                  /\ Score(intentScores("ceremony", event), "co_creation") = boosted
                  /\ (\A i \in 1..Len(keywordScores) :
                          keywordScores[i].intent # "co_creation" =>
                              keywordScores[i].score < boosted)
                        => /\ perspective.intent = "co_creation"
                           /\ perspective.confidence = Confidence(50, boosted)
            /\ distinct <= 1 =>
                  /\ intentScores("ceremony", event) = keywordScores
                  /\ perspective.intent = "co_creation" =>
                        perspective.confidence =
                            Confidence(50, Score(keywordScores, "co_creation"))

\* the Ceremony lens has run on a push by alice with a commit of bob whose
\* text has one co_creation keyword: co_creation with 0.5 + 0.4 * (1/6 + 0.5)
C14_Witness ==
    /\ tus # <<>>
    /\ tus.ceremonyPerspective # <<>>
    /\ tus.ceremonyPerspective[1].context.contributors = <<"alice", "bob">>
    /\ tus.ceremonyPerspective[1].context.isCollaborative
    /\ tus.ceremonyPerspective[1].intent = "co_creation"
    /\ IntentScores(ceremonyIntentKeywords,
                    StringToLowerCase(extractContent(tus.event)))
          = <<[intent |-> "co_creation", score |-> ScoreScale \div 6]>>
    /\ tus.ceremonyPerspective[1].confidence = 230

(***************************************************************************)
(* Claims about the synthesis.                                             *)
(***************************************************************************)
\* C15: the coherence of a synthesis is mean(confidences) + bonus
\* - 0.2 * (highest - lowest confidence), clamped to [0, 1] and rounded to
\* two decimals, the bonus being 0.1 when at least two of: engineer category
\* in security, bug_fix, performance; ceremony senderEnergy urgent_flow;
\* dramaticTension > 0.7 hold, and 0 otherwise; it is greater than 0 and at
\* most 1.
C15_Coherence ==
    (tus # <<>> /\ tus.analysis # <<>>) =>
        LET a == tus.analysis[1]
            c == <<a.engineer.confidence, a.ceremony.confidence,
                   a.storyEngine.confidence>>
            highest == CHOOSE x \in {c[1], c[2], c[3]} :
                          \A y \in {c[1], c[2], c[3]} : y <= x
            lowest  == CHOOSE x \in {c[1], c[2], c[3]} :
                          \A y \in {c[1], c[2], c[3]} : y >= x
            urgent == {u \in {"engineer", "ceremony", "story_engine"} :
                        \/ u = "engineer" /\ a.engineer.intent \in
                                               {"security", "bug_fix", "performance"}
                        \/ u = "ceremony" /\ a.ceremony.context.senderEnergy
                                               = "urgent_flow"
                        \/ u = "story_engine" /\ a.storyEngine.context.dramaticTension
                                               > 70}
            \* the unrounded value in units of 1/(15 * ConfidenceScale)
            raw == 5 * (c[1] + c[2] + c[3])
                   + (IF Cardinality(urgent) >= 2 THEN (15 * ConfidenceScale) \div 10
                      ELSE 0)
                   - 3 * (highest - lowest)
            clamped == IF raw < 0 THEN 0
                       ELSE IF raw > 15 * ConfidenceScale THEN 15 * ConfidenceScale
                       ELSE raw
            r == a.coherenceScore
        IN  /\ tus.coherenceScore = <<r>>
            \* r is clamped * 100 rounded to the nearest integer, halves up
            /\ 2 * 15 * ConfidenceScale * r <= 200 * clamped + 15 * ConfidenceScale
            /\ 200 * clamped + 15 * ConfidenceScale < 2 * 15 * ConfidenceScale * (r + 1)
            /\ r > 0 /\ r <= 100

\* a synthesis of three perspectives of different confidences, two of them
\* urgent: the bonus and the penalty are both in the coherence
C15_Witness ==
    /\ tus # <<>>
    /\ tus.analysis # <<>>
    /\ tus.analysis[1].engineer.intent = "bug_fix"
    /\ tus.analysis[1].ceremony.context.senderEnergy = "urgent_flow"
    /\ tus.analysis[1].engineer.confidence # tus.analysis[1].ceremony.confidence
    /\ tus.coherenceScore = <<tus.analysis[1].coherenceScore>>


(***************************************************************************)
(* Claims about the scores and the gaps of analyze.                        *)
(***************************************************************************)
\* C16: in every result of analyze each of the five component scores lies
\* in [0, 100], and its status is good exactly when the score is at least
\* 70, warning exactly when it is at least 50 and below 70, and critical
\* exactly when it is below 50.
C16_ScoreRangeAndStatus ==
    engine.result # <<>> =>
        LET score == engine.result[1].coherenceScore
            components == <<score.narrativeFlow, score.characterConsistency,
                            score.pacing, score.themeSaturation, score.continuity>>
        IN  \A i \in 1..5 :
                LET c == components[i]
                IN  /\ c.score.den > 0
                    /\ c.score.num >= 0
                    /\ c.score.num <= 100 * c.score.den
                    /\ c.status \in {"good", "warning", "critical"}
                    /\ c.status = "good" <=> c.score.num >= 70 * c.score.den
                    /\ c.status = "warning" <=>
                          /\ c.score.num >= 50 * c.score.den
                          /\ c.score.num < 70 * c.score.den
                    /\ c.status = "critical" <=> c.score.num < 50 * c.score.den

\* a result whose flow score is exactly 70 and good, whose continuity score
\* is exactly 50 and a warning, and whose theme score is critical
C16_Witness ==
    /\ last.op = "analyze"
    /\ engine.result # <<>>
    /\ LET score == engine.result[1].coherenceScore
       IN  /\ score.narrativeFlow.score = Fraction(70, 1)
           /\ score.narrativeFlow.status = "good"
           /\ \E c \in {score.characterConsistency, score.pacing, score.continuity} :
                 c.score = Fraction(50, 1) /\ c.status = "warning"
           /\ score.themeSaturation.status = "critical"

\* C17: in every result of analyze the overall score equals
\* (1.2 * flow + 1.2 * character + 1.0 * pacing + 1.0 * theme
\* + 0.8 * continuity) / 5.2 of the five component scores of that result,
\* is strictly greater than 0 and is at most 100; this includes the result
\* of the empty beat list.
C17_OverallScore ==
    engine.result # <<>> =>
        LET score == engine.result[1].coherenceScore
            flow == score.narrativeFlow.score
            character == score.characterConsistency.score
            pacing == score.pacing.score
            theme == score.themeSaturation.score
            continuity == score.continuity.score
            overall == score.overall
            common == flow.den * character.den * pacing.den * theme.den
                        * continuity.den
            \* ten times the weighted sum, times common
            weighted == 12 * flow.num * (common \div flow.den)
                        + 12 * character.num * (common \div character.den)
                        + 10 * pacing.num * (common \div pacing.den)
                        + 10 * theme.num * (common \div theme.den)
                        + 8 * continuity.num * (common \div continuity.den)
        IN  /\ overall.den > 0
            /\ overall.num * 52 * common = weighted * overall.den
            /\ overall.num > 0
            /\ overall.num <= 100 * overall.den

\* a result whose flow and continuity scores differ and whose theme score
\* is not a whole number
C17_Witness ==
    /\ last.op = "analyze"
    /\ engine.result # <<>>
    /\ LET score == engine.result[1].coherenceScore
       IN  /\ score.narrativeFlow.score # score.continuity.score
           /\ score.themeSaturation.score.num % score.themeSaturation.score.den # 0
           /\ score.overall.num > 0

\* C18: in every result of analyze the number of gaps equals the number of
\* issues of the five component scores, and every issue of a component is
\* the description of as many gaps of that component as the component has
\* issues of that text (one gap per issue); a gap of the flow or the pacing
\* score has type structural and route structurist, a gap of the character
\* score type character and route storyteller, a gap of the theme score type
\* thematic and route structurist, a gap of the continuity score type
\* continuity and route author; no gap has type sensory or route architect,
\* and every gap has resolved = false.
C18_OneGapPerIssue ==
    engine.result # <<>> =>
        LET score == engine.result[1].coherenceScore
            gaps  == engine.result[1].gaps
            keys  == <<"narrativeFlowScore", "characterConsistencyScore",
                       "pacingScore", "themeSaturationScore", "continuityScore">>
            components == <<score.narrativeFlow, score.characterConsistency,
                            score.pacing, score.themeSaturation, score.continuity>>
            types  == <<"structural", "character", "structural", "thematic",
                        "continuity">>
            routes == <<"structurist", "storyteller", "structurist", "structurist",
                        "author">>
            RECURSIVE Total(_)
            Total(c) == IF c = 0 THEN 0
                        ELSE Len(components[c].issues) + Total(c - 1)
            GapsOf(c, issue) ==
                {i \in 1..Len(gaps) : /\ gaps[i].location.component = keys[c]
                                      /\ gaps[i].description = issue}
            IssuesOf(c, issue) ==
                {i \in 1..Len(components[c].issues) : components[c].issues[i] = issue}
        IN  /\ Len(gaps) = Total(5)
            /\ \A c \in 1..5 : \A i \in 1..Len(components[c].issues) :
                  LET issue == components[c].issues[i]
                  IN  Cardinality(GapsOf(c, issue)) = Cardinality(IssuesOf(c, issue))
            /\ \A i \in 1..Len(gaps) :
                  /\ \E c \in 1..5 :
                        /\ gaps[i].location.component = keys[c]
                        /\ gaps[i].gapType = types[c]
                        /\ gaps[i].suggestedRoute = routes[c]
                        /\ IssuesOf(c, gaps[i].description) # {}
                  /\ gaps[i].gapType # "sensory"
                  /\ gaps[i].suggestedRoute # "architect"
                  /\ gaps[i].resolved = FALSE

\* a result with gaps of all five component scores, two of the flow gaps
\* carrying the same description
C18_Witness ==
    /\ last.op = "analyze"
    /\ engine.result # <<>>
    /\ LET gaps == engine.result[1].gaps
       IN  /\ \A key \in {"narrativeFlowScore", "characterConsistencyScore",
                           "pacingScore", "themeSaturationScore", "continuityScore"} :
                 \E i \in 1..Len(gaps) : gaps[i].location.component = key
           /\ \E i, j \in 1..Len(gaps) :
                 /\ i < j
                 /\ gaps[i].description = gaps[j].description
                 /\ gaps[i].location.component = "narrativeFlowScore"
                 /\ gaps[j].location.component = "narrativeFlowScore"

\* C19: a call of analyze that returns leaves the beats, the characters
\* and the themes it was given as they were and changes nothing of the
\* engine but the gap counter; made on an engine that already analyzed the
\* same lists, it returns the same component scores, statuses, issues and
\* overall score, and gaps of the same descriptions, types, severities,
\* routes and order; the ids of its gaps are distinct and are the numbers
\* after the counter before the call up to the counter after it, so that no
\* id of the engine is used twice.
C19_RepeatableAnalyze ==
    [][(last'.op = "analyze" /\ ~thrown') =>
          LET new == engine'.result[1]
              WithoutId(gaps) == [i \in 1..Len(gaps) |-> [gaps[i] EXCEPT !.id = <<>>]]
              ids == {new.gaps[i].id[2] : i \in 1..Len(new.gaps)}
          IN  /\ engine'.beats = engine.beats
              /\ engine'.characters = engine.characters
              /\ engine'.themes = engine.themes
              /\ engine' = [engine EXCEPT !.gapCounter = engine'.gapCounter,
                                          !.result = engine'.result]
              /\ engine.result # <<>> =>
                    /\ new.coherenceScore = engine.result[1].coherenceScore
                    /\ WithoutId(new.gaps) = WithoutId(engine.result[1].gaps)
                    /\ new.trinityAssessment = engine.result[1].trinityAssessment
                    /\ \A i \in 1..Len(new.gaps), j \in 1..Len(engine.result[1].gaps) :
                          new.gaps[i].id # engine.result[1].gaps[j].id
              /\ \A i \in 1..Len(new.gaps) : new.gaps[i].id[1] = "gap_"
              /\ Cardinality(ids) = Len(new.gaps)
              /\ ids = (engine.gapCounter + 1)..engine'.gapCounter
    ]_vars

\* the result of a second call of analyze on the same lists: three gaps
\* or more, none of them with an id of the first result
C19_Witness ==
    /\ last.op = "analyze"
    /\ engine.result # <<>>
    /\ Len(engine.result[1].gaps) >= 3
    /\ engine.gapCounter = 2 * Len(engine.result[1].gaps)
    /\ \A i \in 1..Len(engine.result[1].gaps) :
          engine.result[1].gaps[i].id[2] > Len(engine.result[1].gaps)

(***************************************************************************)
(* NarrativeRedisManager and MockRedis (redis_state.ts).                   *)
(* The store is the MockRedis the manager falls back to: data, lists and   *)
(* expiry are its three maps, a map being a function on the keys it holds. *)
(* A client the caller hands to connect is a store of the same shape; its  *)
(* field reachable is FALSE when every command sent to it is rejected.     *)
(* A key is the tuple of its prefix and the id put into it.  A JSON text   *)
(* is the record [json |-> value] of the value it parses to.  The clock    *)
(* counts hours.                                                           *)
(*                                                                         *)
(* A method of the manager is an async function: it runs until it awaits   *)
(* a command of the store, and other calls run before it resumes.  A       *)
(* command acts on the store when it is issued.  A call is the record of   *)
(* its method and arguments, the command it awaits (pc, "called" before    *)
(* the method has run and "done" once it has returned or thrown), whether  *)
(* that command was rejected, the reply of the command, and the locals     *)
(* the method keeps over the await (state, beatIds, beats, start).  The    *)
(* step that resumes a call after its last command runs the method to its  *)
(* return.                                                                 *)
(***************************************************************************)
RoutingHistoryLimit == 100  \* ltrim(key, -100, -1)
StateTtlHours == 168        \* stateTtlHours of createRedisConfig
BeatTtlHours == 720         \* beatTtlHours of createRedisConfig
EventCacheTtlHours == 24    \* eventCacheTtlHours of createRedisConfig

\* MockRedis.lrange: list.slice(actualStart, actualEnd)
lrange(redis, key, start, end) ==
    LET list == IF key \in DOMAIN redis.lists THEN redis.lists[key] ELSE <<>>
        actualEnd == IF end = -1 THEN Len(list) ELSE end + 1
        actualStart == IF start < 0 THEN Max(0, Len(list) + start) ELSE start
        \* Array.prototype.slice(start, end)
        from == IF actualStart < 0 THEN Max(Len(list) + actualStart, 0)
                ELSE Min(actualStart, Len(list))
        to   == IF actualEnd < 0 THEN Max(Len(list) + actualEnd, 0)
                ELSE Min(actualEnd, Len(list))
    IN  [i \in 1..Max(to - from, 0) |-> list[from + i]]

\* ltrim that keeps the first entries of the list instead of the last
ltrim_head(redis, key, start, end) ==
    IF key \in DOMAIN redis.lists
    THEN [redis EXCEPT !.lists[key] =
            [i \in 1..Min(Len(@), 0 - start) |-> @[i]]]
    ELSE redis

\* MockRedis.ltrim: the store afterwards
ltrim(redis, key, start, end) ==
    IF key \in DOMAIN redis.lists
    THEN [redis EXCEPT !.lists[key] = lrange(redis, key, start, end)]
    ELSE redis

\* A command of MockRedis: the store afterwards and the reply (for get the
\* text under the key or Absent for null, for lrange the entries, for keys
\* the set of the keys, whose order in the Maps the store does not keep)
MockRedis(redis, command, now) ==
    LET Put(map, key, value) ==
            [k \in DOMAIN map \cup {key} |-> IF k = key THEN value ELSE map[k]]
        Without(map, keys) == [k \in DOMAIN map \ keys |-> map[k]]
        \* checkExpiry(key)
        checked ==
            IF command.key \in DOMAIN redis.expiry /\ now > redis.expiry[command.key]
            THEN [redis EXCEPT !.data = Without(@, {command.key}),
                               !.lists = Without(@, {command.key}),
                               !.expiry = Without(@, {command.key})]
            ELSE redis
        list == IF command.key \in DOMAIN redis.lists
                THEN redis.lists[command.key] ELSE <<>>
        Store(store) == [redis |-> store, reply |-> Absent]
    IN  CASE command.name = "get" ->
               [redis |-> checked,
                reply |-> IF command.key \in DOMAIN checked.data
                          THEN Some(checked.data[command.key]) ELSE Absent]
          [] command.name = "set" ->
               Store([redis EXCEPT !.data = Put(@, command.key, command.value)])
          [] command.name = "setex" ->
               Store([redis EXCEPT
                        !.data = Put(@, command.key, command.value),
                        !.expiry = Put(@, command.key, now + command.ttl)])
          [] command.name = "del" ->
               Store([redis EXCEPT !.data = Without(@, command.keys),
                                   !.lists = Without(@, command.keys)])
          [] command.name = "keys" ->
               \* the keys of data and of lists the pattern matches; the
               \* pattern "<prefix>*" matches the keys that begin with the
               \* prefix, "ncp:state:current" among those of "ncp:state:"
               [redis |-> redis,
                reply |-> {k \in DOMAIN redis.data \cup DOMAIN redis.lists :
                              \/ k[1] = command.prefix
                              \/ /\ command.prefix = "ncp:state:"
                                 /\ k = <<"ncp:state:current">>}]
          [] command.name = "rpush" ->
               Store([redis EXCEPT
                        !.lists = Put(@, command.key, Append(list, command.value))])
          [] command.name = "lrange" ->
               [redis |-> redis,
                reply |-> lrange(redis, command.key, command.start, command.end)]
          [] command.name = "ltrim" ->
               Store(ltrim(redis, command.key, command.start, command.end))
          [] command.name = "expire" ->
               Store([redis EXCEPT
                        !.expiry = Put(@, command.key, now + command.ttl)])
          [] command.name \in {"ping", "quit"} -> Store(redis)

\* await this.redis.command(...): the command is issued to the client of
\* the manager and the call is suspended at pc until the reply comes
Await(mgr, call, pc, command, now) ==
    IF mgr.redis[1].reachable
    THEN LET r == MockRedis(mgr.redis[1], command, now)
         IN  [manager |-> [mgr EXCEPT !.redis = Some(r.redis)],
              call |-> [call EXCEPT !.pc = pc, !.rejected = FALSE,
                                    !.reply = r.reply]]
    ELSE [manager |-> mgr,
          call |-> [call EXCEPT !.pc = pc, !.rejected = TRUE, !.reply = Absent]]

\* NarrativeRedisManager.getState as the methods of the manager call it.
\* Before the await: without a client it returns null and the caller
\* awaits that (pc "getState.null"), else get is issued (pc
\* "getState.get").  After the await: the state it returns is left in
\* call.state (Absent for null).
getState(mgr, call, now) ==
    IF call.pc = "getState.get"
    THEN [manager |-> mgr,
          call |-> [call EXCEPT !.state =
                      \* deserializeState(data): JSON.parse
                      IF call.reply = Absent THEN Absent
                      ELSE Some(call.reply[1].json)]]
    ELSE IF mgr.redis = Absent
    THEN [manager |-> mgr,
          call |-> [call EXCEPT !.pc = "getState.null", !.state = Absent]]
    ELSE Await(mgr, call, "getState.get",
               [name |-> "get", key |-> <<"ncp:state:", call.sessionId>>], now)

\* NarrativeRedisManager.saveState(state): called by a caller with the
\* state in call.arg (pc "called"), or by a method of the manager with the
\* state in call.state (pc "saveState"); call.result is the value it
\* returns
saveState(mgr, call, now) ==
    LET Return(value) ==
            [manager |-> mgr, call |-> [call EXCEPT !.pc = "done", !.result = value]]
        \* JSON.stringify leaves out a property that is undefined
        Defined(object, optional) ==
            [f \in DOMAIN object \
                      (IF optional \in DOMAIN object /\ object[optional] = Undefined
                       THEN {optional} ELSE {}) |-> object[f]]
        \* serializeState(state): currentEpisodeId and position.currentBeatId
        \* are the properties that can be undefined
        serializeState(st) ==
            [json |-> Defined([st EXCEPT !.position = Defined(@, "currentBeatId")],
                              "currentEpisodeId")]
    IN  CASE call.pc = "saveState.setex" ->
               \* catch: return false
               IF call.rejected THEN Return(FALSE)
               ELSE Await(mgr, call, "saveState.set",
                          [name |-> "set", key |-> <<"ncp:state:current">>,
                           value |-> call.state[1].sessionId], now)
          [] call.pc = "saveState.set" -> Return(~call.rejected)
          [] call.pc \in {"called", "saveState"} ->
               IF mgr.redis = Absent THEN Return(FALSE)
               ELSE LET state == IF call.pc = "called" THEN call.arg
                                 ELSE call.state[1]
                        \* state.updatedAt = new Date().toISOString()
                        stamped == [state EXCEPT !.updatedAt = now]
                    IN  Await(mgr, [call EXCEPT !.state = Some(stamped)],
                              "saveState.setex",
                              [name |-> "setex",
                               key |-> <<"ncp:state:", stamped.sessionId>>,
                               ttl |-> StateTtlHours,
                               value |-> serializeState(stamped)], now)

\* NarrativeRedisManager.getOrCreateState("story_1", sessionId): the next
\* step of a call
getOrCreateState(mgr, call, now) ==
    LET \* return state
        Returned(r) == IF r.call.pc = "done"
                       THEN [r EXCEPT !.call.result = r.call.state] ELSE r
        \* createUnifiedNarrativeState(storyId, sessionId, options) and
        \* await this.saveState(state)
        Create(c) ==
            Returned(saveState(mgr,
                [c EXCEPT !.pc = "saveState",
                          !.state = Some([sessionId |-> c.sessionId]
                                         @@ createUnifiedNarrativeState(now))],
                now))
        existing == getState(mgr, call, now).call
    IN  CASE call.pc = "called" ->
               \* const existing = await this.getState(sessionId)
               getState(mgr, call, now)
          [] call.pc = "getState.null" -> Create(call)
          [] call.pc = "getState.get" ->
               \* get stands outside a try: its rejection is the call's
               IF call.rejected
               THEN [manager |-> mgr,
                     call |-> [call EXCEPT !.pc = "done", !.thrown = TRUE]]
               ELSE IF existing.state # Absent
               THEN [manager |-> mgr,
                     call |-> [existing EXCEPT !.pc = "done",
                                               !.result = existing.state]]
               ELSE Create(call)
          [] call.pc \in {"saveState.setex", "saveState.set"} ->
               Returned(saveState(mgr, call, now))

\* NarrativeRedisManager.recordRoutingDecision(sessionId, decision): the
\* next step of a call
recordRoutingDecision(mgr, call, now) ==
    LET Return(value) ==
            [manager |-> mgr, call |-> [call EXCEPT !.pc = "done", !.result = value]]
        key == <<"ncp:routing:", call.sessionId>>
        state == getState(mgr, call, now).call.state
        \* await this.saveState(state); return true
        Saved(r) == IF r.call.pc = "done" THEN [r EXCEPT !.call.result = TRUE] ELSE r
    IN  IF call.pc \in {"rpush", "ltrim", "getState.get"} /\ call.rejected
        \* catch: return false
        THEN Return(FALSE)
        ELSE CASE call.pc = "called" ->
                    IF mgr.redis = Absent THEN Return(FALSE)
                    ELSE Await(mgr, call, "rpush",
                               [name |-> "rpush", key |-> key,
                                value |-> [json |-> call.arg]], now)
               [] call.pc = "rpush" ->
                    Await(mgr, call, "ltrim",
                          [name |-> "ltrim", key |-> key,
                           start |-> 0 - RoutingHistoryLimit, end |-> -1], now)
               [] call.pc = "ltrim" -> getState(mgr, call, now)
               [] call.pc = "getState.get" ->
                    IF state = Absent THEN Return(TRUE)
                    ELSE Saved(saveState(mgr,
                            [call EXCEPT
                               !.pc = "saveState",
                               !.state = Some(addRoutingDecision(state[1],
                                                                 call.arg, now))],
                            now))
               [] call.pc \in {"saveState.setex", "saveState.set"} ->
                    Saved(saveState(mgr, call, now))

\* NarrativeRedisManager.getRoutingHistory(sessionId, count): the next step
\* of a call
getRoutingHistory(mgr, call, now) ==
    CASE call.pc = "called" ->
           IF mgr.redis = Absent
           THEN [manager |-> mgr,
                 call |-> [call EXCEPT !.pc = "done", !.result = <<>>]]
           ELSE Await(mgr, call, "lrange",
                      [name |-> "lrange", key |-> <<"ncp:routing:", call.sessionId>>,
                       start |-> 0 - call.arg, end |-> -1], now)
      [] call.pc = "lrange" ->
           \* lrange stands outside a try: its rejection is the call's
           IF call.rejected
           THEN [manager |-> mgr,
                 call |-> [call EXCEPT !.pc = "done", !.thrown = TRUE]]
           ELSE [manager |-> mgr,
                 call |-> [call EXCEPT
                             !.pc = "done",
                             \* JSON.parse of every entry
                             !.result = [i \in 1..Len(call.reply) |->
                                            call.reply[i].json]]]

\* addBeatToSession that saves the ledger as it read it, without the beat
addBeatToSession_saveAsRead(mgr, call, now) ==
    LET Return(value) ==
            [manager |-> mgr, call |-> [call EXCEPT !.pc = "done", !.result = value]]
        beat == call.arg
        beatsKey == <<"ncp:beats:", call.sessionId>>
        state == getState(mgr, call, now).call.state
        Saved(r) == IF r.call.pc = "done" THEN [r EXCEPT !.call.result = TRUE] ELSE r
    IN  IF call.pc \in {"setex", "rpush", "expire", "getState.get"} /\ call.rejected
        THEN Return(FALSE)
        ELSE CASE call.pc = "called" ->
                    IF mgr.redis = Absent THEN Return(FALSE)
                    ELSE Await(mgr, call, "setex",
                               [name |-> "setex", key |-> <<"ncp:beat:", beat.id>>,
                                ttl |-> BeatTtlHours, value |-> [json |-> beat]], now)
               [] call.pc = "setex" ->
                    Await(mgr, call, "rpush",
                          [name |-> "rpush", key |-> beatsKey, value |-> beat.id], now)
               [] call.pc = "rpush" ->
                    Await(mgr, call, "expire",
                          [name |-> "expire", key |-> beatsKey,
                           ttl |-> BeatTtlHours], now)
               [] call.pc = "expire" -> getState(mgr, call, now)
               [] call.pc = "getState.get" ->
                    IF state = Absent THEN Return(TRUE)
                    ELSE Saved(saveState(mgr,
                            [call EXCEPT !.pc = "saveState", !.state = state],
                            now))
               [] call.pc \in {"saveState.setex", "saveState.set"} ->
                    Saved(saveState(mgr, call, now))

\* NarrativeRedisManager.addBeatToSession(sessionId, beat): the next step
\* of a call
addBeatToSession(mgr, call, now) ==
    LET Return(value) ==
            [manager |-> mgr, call |-> [call EXCEPT !.pc = "done", !.result = value]]
        beat == call.arg
        beatsKey == <<"ncp:beats:", call.sessionId>>
        state == getState(mgr, call, now).call.state
        \* await this.saveState(state); return true
        Saved(r) == IF r.call.pc = "done" THEN [r EXCEPT !.call.result = TRUE] ELSE r
    IN  IF call.pc \in {"setex", "rpush", "expire", "getState.get"} /\ call.rejected
        \* catch: return false
        THEN Return(FALSE)
        ELSE CASE call.pc = "called" ->
                    IF mgr.redis = Absent THEN Return(FALSE)
                    ELSE Await(mgr, call, "setex",
                               [name |-> "setex", key |-> <<"ncp:beat:", beat.id>>,
                                ttl |-> BeatTtlHours, value |-> [json |-> beat]], now)
               [] call.pc = "setex" ->
                    Await(mgr, call, "rpush",
                          [name |-> "rpush", key |-> beatsKey, value |-> beat.id], now)
               [] call.pc = "rpush" ->
                    Await(mgr, call, "expire",
                          [name |-> "expire", key |-> beatsKey,
                           ttl |-> BeatTtlHours], now)
               [] call.pc = "expire" -> getState(mgr, call, now)
               [] call.pc = "getState.get" ->
                    IF state = Absent THEN Return(TRUE)
                    ELSE Saved(saveState(mgr,
                            [call EXCEPT
                               !.pc = "saveState",
                               !.state = Some(addBeat(state[1], beat, now))],
                            now))
               [] call.pc \in {"saveState.setex", "saveState.set"} ->
                    Saved(saveState(mgr, call, now))

\* connect where a missing client is never replaced: this.redis stays as
\* it was
connect_noFallback(mgr, call, now) ==
    LET Done(m, raised) ==
            [manager |-> m, call |-> [call EXCEPT !.pc = "done", !.thrown = raised]]
    IN  CASE call.pc = "called" ->
               IF call.arg # Absent
               THEN Await([mgr EXCEPT !.redis = call.arg], call, "ping",
                          [name |-> "ping"], now)
               ELSE [manager |-> mgr, call |-> [call EXCEPT !.pc = "import"]]
          [] call.pc = "ping" ->
               IF call.rejected THEN Done(mgr, TRUE)
               ELSE Done([mgr EXCEPT !.connected = TRUE], FALSE)
          [] call.pc = "import" ->
               Done([mgr EXCEPT !.connected = TRUE], FALSE)

\* NarrativeRedisManager.connect(client), client being call.arg: the next
\* step of a call.  Without a client the manager ends with a store that
\* answers (the Redis server if ioredis is installed and reaches one, a new
\* MockRedis otherwise); the model takes the run that ends with the
\* MockRedis after the import of ioredis has failed.
connect(mgr, call, now) ==
    LET Done(m, raised) ==
            [manager |-> m, call |-> [call EXCEPT !.pc = "done", !.thrown = raised]]
    IN  CASE call.pc = "called" ->
               IF call.arg # Absent
               \* this.redis = client; await this.redis.ping()
               THEN Await([mgr EXCEPT !.redis = call.arg], call, "ping",
                          [name |-> "ping"], now)
               \* await import("ioredis")
               ELSE [manager |-> mgr, call |-> [call EXCEPT !.pc = "import"]]
          [] call.pc = "ping" ->
               \* a rejected ping is the call's rejection; else
               \* this.connected = true
               IF call.rejected THEN Done(mgr, TRUE)
               ELSE Done([mgr EXCEPT !.connected = TRUE], FALSE)
          [] call.pc = "import" ->
               \* this.redis = new MockRedis(); this.connected = true
               Done([redis |-> Some([data |-> <<>>, lists |-> <<>>,
                                     expiry |-> <<>>, reachable |-> TRUE]),
                     connected |-> TRUE], FALSE)

(***************************************************************************)
(* SpecManager: one manager and the calls of its methods, at most MaxCalls *)
(* of them under way at a time.                                            *)
(***************************************************************************)
MaxCalls == 2           \* calls under way at a time
MaxRecorded == 102      \* decisions recorded for the first session
MaxOther == 1           \* decisions recorded for the second session
MaxBegun == 4           \* calls made before the calls are made one after the other
MaxAlone == 6           \* calls made, each begun with no call under way
MaxBefore == 2          \* decisions recorded for a session before its state is created
MaxSessionBeats == 2    \* beats added to the first session

\* the decisions in the routing list of a session
Recorded(sessionId) ==
    IF manager.redis # Absent
       /\ <<"ncp:routing:", sessionId>> \in DOMAIN manager.redis[1].lists
    THEN manager.redis[1].lists[<<"ncp:routing:", sessionId>>]
    ELSE <<>>

\* The calls a step of a method can be of: the call a caller makes with one
\* of the arguments given (c = 0), or the call c under way when it is a call
\* of the method
Calls(method, c, arguments) ==
    IF c = 0
    THEN {[method |-> method, sessionId |-> given.sessionId,
           arg |-> given.arg, pc |-> "called", rejected |-> FALSE,
           reply |-> Absent, state |-> Absent, beatIds |-> <<>>,
           beats |-> <<>>, start |-> clock,
           result |-> Undefined, thrown |-> FALSE] : given \in arguments}
    ELSE IF calls[c].method = method THEN {calls[c]} ELSE {}

\* A step of a call: the method runs from the call's place to its next
\* await or to its end, r being the manager and the call afterwards; a call
\* that has ended leaves calls.  last is the call after the step, without
\* the locals, and the command it awaited before (from).
\* history records, of the calls made and the time passed so far: their
\* number up to MaxAlone (begun); whether they were calls of connect(),
\* recordRoutingDecision, getRoutingHistory, and getOrCreateState for a
\* session of at most MaxBefore decisions, made one after the other
\* (routine: such calls are made in any number, every other call only
\* while fewer than MaxBegun calls were made, or fewer than MaxAlone when
\* the calls on a session were alone and no call is under way); whether no
\* call on a session began while another call on that session was under
\* way (alone); whether
\* the first addBeatToSession call began with the ledger of its session in
\* the store ("stored") or not ("missing"), "none" before that call
\* (first); and whether, besides the calls on a session being alone, no
\* call on a session overlapped a call of connect, every addBeatToSession
\* call began with the ledger of its session in the store, the caller
\* never called saveState, and no key of a session outlived its time to
\* live (kept).
Async(c, call, r) ==
    LET method == call.method
        sessions == {"session_1", "session_2"}
        key == <<"ncp:state:", call.sessionId>>
        \* the ledger of the session is in the store, and get would read it
        stored == /\ manager.redis # Absent
                  /\ key \in DOMAIN manager.redis[1].data
                  /\ ~(/\ key \in DOMAIN manager.redis[1].expiry
                       /\ clock > manager.redis[1].expiry[key])
        alone == call.sessionId \in sessions =>
                    \A i \in 1..Len(calls) : calls[i].sessionId # call.sessionId
        apart == /\ method = "connect" =>
                       \A i \in 1..Len(calls) : calls[i].sessionId \notin sessions
                 /\ call.sessionId \in sessions =>
                       \A i \in 1..Len(calls) : calls[i].method # "connect"
        routine == /\ history.routine
                   /\ calls = <<>>
                   /\ \/ method = "connect" /\ call.arg = Absent
                      \/ method \in {"recordRoutingDecision", "getRoutingHistory"}
                      \/ /\ method = "getOrCreateState"
                         /\ Len(Recorded(call.sessionId)) <= MaxBefore
    IN  /\ c = 0 => /\ Len(calls) < MaxCalls
                    /\ \/ history.begun < MaxBegun
                       \/ routine
                       \/ history.alone /\ calls = <<>> /\ history.begun < MaxAlone
        /\ manager' = r.manager
        /\ calls' = IF r.call.pc # "done"
                    THEN IF c = 0 THEN Append(calls, r.call)
                         ELSE [calls EXCEPT ![c] = r.call]
                    ELSE IF c = 0 THEN calls
                    ELSE [i \in 1..(Len(calls) - 1) |->
                             IF i < c THEN calls[i] ELSE calls[i + 1]]
        /\ last' = [op |-> method, from |-> call.pc]
                    @@ [r.call EXCEPT !.state = Absent, !.beatIds = <<>>,
                                      !.beats = <<>>]
        /\ thrown' = r.call.thrown
        /\ history' =
             IF c # 0 THEN history
             ELSE [begun |-> Min(history.begun + 1, MaxAlone),
                   routine |-> routine,
                   alone |-> history.alone /\ alone,
                   first |-> IF method = "addBeatToSession" /\ history.first = "none"
                             THEN IF stored THEN "stored" ELSE "missing"
                             ELSE history.first,
                   kept |-> /\ history.kept
                            /\ alone
                            /\ apart
                            /\ method # "saveState"
                            /\ method = "addBeatToSession" => stored]

\* Time passes, while calls are under way or not: new Date() and Date.now()
\* read a later hour.  The hours that pass are the time to live of a state,
\* after which a state saved at the start is still read and a cached
\* analysis is not, or one hour more, after which MockRedis.get drops the
\* state (checkExpiry), or one hour more than the time to live of a beat,
\* after which get drops every key that has a time to live.
Elapse ==
    /\ \/ history.begun < MaxBegun
       \/ history.alone /\ calls = <<>> /\ history.begun < MaxAlone
    /\ \E hours \in {StateTtlHours, StateTtlHours + 1, BeatTtlHours + 1} :
          clock' = clock + hours
    /\ last' = [op |-> "elapse"]
    /\ thrown' = FALSE
    /\ history' =
         [history EXCEPT
            !.begun = @ + 1,
            !.routine = FALSE,
            !.kept = /\ @
                     /\ manager.redis # Absent =>
                           \A k \in DOMAIN manager.redis[1].expiry :
                              k[1] \in {"ncp:state:", "ncp:beats:"} =>
                                 clock' <= manager.redis[1].expiry[k]]
    /\ UNCHANGED <<ledger, tus, engine, manager, calls>>

\* connect() and connect(client), the client being an empty store that
\* answers or one that cannot be reached
Connect ==
    /\ \E c \in 0..Len(calls) :
         \E call \in Calls("connect", c,
              [sessionId : {""},
               arg : {Absent} \cup
                     {Some([data |-> <<>>, lists |-> <<>>, expiry |-> <<>>,
                            reachable |-> reachable]) : reachable \in BOOLEAN}]) :
            Async(c, call, connect(manager, call, clock))
    /\ UNCHANGED <<ledger, clock, tus, engine>>

\* disconnect()
Disconnect ==
    /\ \E c \in 0..Len(calls) :
         \E call \in Calls("disconnect", c, [sessionId : {""}, arg : {Absent}]) :
            Async(c, call,
                 LET mgr == manager
                     now == clock
                     Done(m, raised) ==
                         [manager |-> m,
                          call |-> [call EXCEPT !.pc = "done", !.thrown = raised]]
                 IN  CASE call.pc = "called" ->
                            \* if (this.redis) await this.redis.quit()
                            IF mgr.redis # Absent
                            THEN Await(mgr, call, "quit", [name |-> "quit"], now)
                            ELSE Done([mgr EXCEPT !.connected = FALSE], FALSE)
                       [] call.pc = "quit" ->
                            \* this.connected = false
                            IF call.rejected THEN Done(mgr, TRUE)
                            ELSE Done([mgr EXCEPT !.connected = FALSE], FALSE))
    /\ UNCHANGED <<ledger, clock, tus, engine>>

\* getOrCreateState("story_1", sessionId)
GetOrCreateState ==
    /\ \E c \in 0..Len(calls) :
         \E call \in Calls("getOrCreateState", c,
              [sessionId : {"session_1"}, arg : {Absent}]) :
            Async(c, call, getOrCreateState(manager, call, clock))
    /\ UNCHANGED <<ledger, clock, tus, engine>>

\* saveState(state), the state being a ledger the caller has created for
\* the session
SaveState ==
    /\ \E c \in 0..Len(calls) :
         \E call \in Calls("saveState", c,
              [sessionId : {"session_1"},
               arg : {[sessionId |-> "session_1"] @@ createUnifiedNarrativeState(clock)}]) :
            Async(c, call, saveState(manager, call, clock))
    /\ UNCHANGED <<ledger, clock, tus, engine>>

\* setCurrentSession(sessionId)
SetCurrentSession ==
    /\ \E c \in 0..Len(calls) :
         \E call \in Calls("setCurrentSession", c,
              [sessionId : {"session_2"}, arg : {Absent}]) :
            Async(c, call,
              LET mgr == manager
                  now == clock
              IN  CASE call.pc = "called" ->
                        \* if (this.redis) await this.redis.set(...)
                        IF mgr.redis # Absent
                        THEN Await(mgr, call, "set",
                                   [name |-> "set", key |-> <<"ncp:state:current">>,
                                    value |-> call.sessionId], now)
                        ELSE [manager |-> mgr, call |-> [call EXCEPT !.pc = "done"]]
                   [] call.pc = "set" ->
                        [manager |-> mgr,
                         call |-> [call EXCEPT !.pc = "done",
                                               !.thrown = call.rejected]])
    /\ UNCHANGED <<ledger, clock, tus, engine>>

\* addBeatToSession(sessionId, beat): the caller adds beat_1, then beat_2
AddBeatToSession ==
    /\ \E c \in 0..Len(calls) :
         \E call \in Calls("addBeatToSession", c,
              LET beats == IF manager.redis # Absent
                              /\ <<"ncp:beats:", "session_1">>
                                    \in DOMAIN manager.redis[1].lists
                           THEN manager.redis[1].lists[<<"ncp:beats:", "session_1">>]
                           ELSE <<>>
                  \* the calls that have not issued their rpush yet
                  coming == {i \in 1..Len(calls) :
                                /\ calls[i].method = "addBeatToSession"
                                /\ calls[i].pc = "setex"}
                  n == Len(beats) + Cardinality(coming) + 1
              IN  IF n <= MaxSessionBeats
                  THEN {[sessionId |-> "session_1",
                         arg |-> [id |-> IF n = 1 THEN "beat_1" ELSE "beat_2",
                                  narrativeFunction |-> "beat",
                                  leadUniverse |-> "engineer"]]}
                  ELSE {}) :
            Async(c, call, addBeatToSession(manager, call, clock))
    /\ UNCHANGED <<ledger, clock, tus, engine>>

\* cacheEventAnalysis(eventId, analysis), the event id in the place of the
\* session id
CacheEventAnalysis ==
    /\ \E c \in 0..Len(calls) :
         \E call \in Calls("cacheEventAnalysis", c,
              [sessionId : {"evt_1"}, arg : {[leadUniverse |-> "engineer"]}]) :
            Async(c, call,
              LET mgr == manager
                  now == clock
              IN  CASE call.pc = "called" ->
                        IF mgr.redis = Absent
                        THEN [manager |-> mgr,
                              call |-> [call EXCEPT !.pc = "done", !.result = FALSE]]
                        ELSE Await(mgr, call, "setex",
                                   [name |-> "setex",
                                    key |-> <<"ncp:event:", call.sessionId>>,
                                    ttl |-> EventCacheTtlHours,
                                    value |-> [json |-> call.arg]], now)
                   [] call.pc = "setex" ->
                        \* return true, or false from the catch
                        [manager |-> mgr,
                         call |-> [call EXCEPT !.pc = "done",
                                               !.result = ~call.rejected]])
    /\ UNCHANGED <<ledger, clock, tus, engine>>

\* recordRoutingDecision(sessionId, decision): the caller numbers the
\* decisions of a session
RecordRoutingDecision ==
    /\ \E c \in 0..Len(calls) :
         \E call \in Calls("recordRoutingDecision", c,
              UNION {LET stored == Recorded(sessionId)
                         n == IF stored = <<>> THEN 1
                              ELSE stored[Len(stored)].json.id[2] + 1
                     IN  IF n <= (IF sessionId = "session_1" THEN MaxRecorded
                                   ELSE MaxOther)
                         THEN {[sessionId |-> sessionId,
                                arg |-> [id |-> <<"rd_", n>>,
                                         universeAnalysis |-> [coherenceScore |-> 20]]]}
                         ELSE {} : sessionId \in {"session_1", "session_2"}}) :
            Async(c, call, recordRoutingDecision(manager, call, clock))
    /\ UNCHANGED <<ledger, clock, tus, engine>>

\* getRoutingHistory(sessionId, count); 50 is the count of a call without one
GetRoutingHistory ==
    /\ \E c \in 0..Len(calls) :
         \E call \in Calls("getRoutingHistory", c,
              [sessionId : {"session_1", "session_2"}, arg : {0, 1, 50, 101}]) :
            Async(c, call, getRoutingHistory(manager, call, clock))
    /\ UNCHANGED <<ledger, clock, tus, engine>>

\* startNewEpisode(sessionId, episodeId) of the manager
StartSessionEpisode ==
    /\ \E c \in 0..Len(calls) :
         \E call \in Calls("startNewEpisode", c,
              [sessionId : {"session_1"}, arg : {"episode_1"}]) :
            Async(c, call,
                 LET mgr == manager
                     now == clock
                     state == getState(mgr, call, now).call
                 IN  CASE call.pc = "called" ->
                            \* const state = await this.getState(sessionId)
                            getState(mgr, call, now)
                       [] call.pc = "getState.null" ->
                            [manager |-> mgr,
                             call |-> [call EXCEPT !.pc = "done", !.result = FALSE]]
                       [] call.pc = "getState.get" ->
                            IF call.rejected
                            THEN [manager |-> mgr,
                                  call |-> [call EXCEPT !.pc = "done", !.thrown = TRUE]]
                            ELSE IF state.state = Absent
                            THEN [manager |-> mgr,
                                  call |-> [call EXCEPT !.pc = "done", !.result = FALSE]]
                            \* startNewEpisode(state, episodeId);
                            \* return this.saveState(state)
                            ELSE saveState(mgr,
                                    [call EXCEPT
                                       !.pc = "saveState",
                                       !.state = Some(startNewEpisode(state.state[1],
                                                                      call.arg, now))],
                                    now)
                       [] call.pc \in {"saveState.setex", "saveState.set"} ->
                            saveState(mgr, call, now))
    /\ UNCHANGED <<ledger, clock, tus, engine>>

\* deleteSession(sessionId)
DeleteSession ==
    /\ \E c \in 0..Len(calls) :
         \E call \in Calls("deleteSession", c,
              [sessionId : {"session_1"}, arg : {Absent}]) :
            Async(c, call,
                 LET mgr == manager
                     now == clock
                     Return(value) ==
                         [manager |-> mgr,
                          call |-> [call EXCEPT !.pc = "done", !.result = value]]
                     \* for (const beatId of beatIds) await this.redis.del(...),
                     \* then await this.redis.del(state, beats, routingHistory)
                     Delete(beatIds) ==
                         IF beatIds # <<>>
                         THEN Await(mgr, [call EXCEPT !.beatIds = Tail(beatIds)],
                                    "del.beat",
                                    [name |-> "del",
                                     keys |-> {<<"ncp:beat:", Head(beatIds)>>}], now)
                         ELSE Await(mgr, [call EXCEPT !.beatIds = <<>>], "del",
                                    [name |-> "del",
                                     keys |-> {<<"ncp:state:", call.sessionId>>,
                                               <<"ncp:beats:", call.sessionId>>,
                                               <<"ncp:routing:", call.sessionId>>}],
                                    now)
                 IN  IF call.pc # "called" /\ call.rejected
                     \* catch: return false
                     THEN Return(FALSE)
                     ELSE CASE call.pc = "called" ->
                                 IF mgr.redis = Absent THEN Return(FALSE)
                                 ELSE Await(mgr, call, "lrange",
                                            [name |-> "lrange",
                                             key |-> <<"ncp:beats:", call.sessionId>>,
                                             start |-> 0, end |-> -1], now)
                            [] call.pc = "lrange" -> Delete(call.reply)
                            [] call.pc = "del.beat" -> Delete(call.beatIds)
                            [] call.pc = "del" -> Return(TRUE))
    /\ UNCHANGED <<ledger, clock, tus, engine>>

\* getState(sessionId), called by a caller
GetState ==
    /\ \E c \in 0..Len(calls) :
         \E call \in Calls("getState", c, [sessionId : {"session_1"}, arg : {Absent}]) :
            Async(c, call,
              LET mgr == manager
                  now == clock
                  r == getState(mgr, call, now)
              IN  CASE call.pc = "called" ->
                        \* if (!this.redis) return null
                        IF mgr.redis = Absent
                        THEN [manager |-> mgr,
                              call |-> [call EXCEPT !.pc = "done", !.result = Absent]]
                        ELSE r
                   [] call.pc = "getState.get" ->
                        IF call.rejected
                        THEN [manager |-> mgr,
                              call |-> [call EXCEPT !.pc = "done", !.thrown = TRUE]]
                        ELSE [manager |-> mgr,
                              call |-> [r.call EXCEPT !.pc = "done",
                                                      !.result = r.call.state]])
    /\ UNCHANGED <<ledger, clock, tus, engine>>

\* getCurrentSessionId()
GetCurrentSessionId ==
    /\ \E c \in 0..Len(calls) :
         \E call \in Calls("getCurrentSessionId", c, [sessionId : {""}, arg : {Absent}]) :
            Async(c, call,
              LET mgr == manager
                  now == clock
              IN  CASE call.pc = "called" ->
                        IF mgr.redis = Absent
                        THEN [manager |-> mgr,
                              call |-> [call EXCEPT !.pc = "done", !.result = Absent]]
                        \* return this.redis.get(RedisKeys.currentState())
                        ELSE Await(mgr, call, "get",
                                   [name |-> "get", key |-> <<"ncp:state:current">>],
                                   now)
                   [] call.pc = "get" ->
                        [manager |-> mgr,
                         call |-> [call EXCEPT !.pc = "done",
                                               !.thrown = call.rejected,
                                               !.result = call.reply]])
    /\ UNCHANGED <<ledger, clock, tus, engine>>

\* getBeat(beatId), the beat id in the place of the session id
GetBeat ==
    /\ \E c \in 0..Len(calls) :
         \E call \in Calls("getBeat", c, [sessionId : {"beat_1"}, arg : {Absent}]) :
            Async(c, call,
              LET mgr == manager
                  now == clock
              IN  CASE call.pc = "called" ->
                        IF mgr.redis = Absent
                        THEN [manager |-> mgr,
                              call |-> [call EXCEPT !.pc = "done", !.result = Absent]]
                        ELSE Await(mgr, call, "get",
                                   [name |-> "get",
                                    key |-> <<"ncp:beat:", call.sessionId>>], now)
                   [] call.pc = "get" ->
                        \* get stands outside a try: its rejection is the
                        \* call's; else JSON.parse(data), or null
                        [manager |-> mgr,
                         call |-> [call EXCEPT
                                     !.pc = "done",
                                     !.thrown = call.rejected,
                                     !.result = IF call.reply = Absent THEN Absent
                                                ELSE Some(call.reply[1].json)]])
    /\ UNCHANGED <<ledger, clock, tus, engine>>

\* getRecentBeats(sessionId, count); 10 is the count of a call without one
GetRecentBeats ==
    /\ \E c \in 0..Len(calls) :
         \E call \in Calls("getRecentBeats", c,
              [sessionId : {"session_1"}, arg : {1, 10}]) :
            Async(c, call,
              LET mgr == manager
                  now == clock
                  Return(value) ==
                      [manager |-> mgr,
                       call |-> [call EXCEPT !.pc = "done", !.result = value]]
                  \* for (const beatId of beatIds): await this.getBeat(beatId)
                  Get(beatIds, beats) ==
                      IF beatIds = <<>> THEN Return(beats)
                      ELSE Await(mgr, [call EXCEPT !.beatIds = Tail(beatIds),
                                                   !.beats = beats],
                                 "getBeat.get",
                                 [name |-> "get",
                                  key |-> <<"ncp:beat:", Head(beatIds)>>], now)
              IN  IF call.pc # "called" /\ call.rejected
                  \* lrange and get stand outside a try
                  THEN [manager |-> mgr,
                        call |-> [call EXCEPT !.pc = "done", !.thrown = TRUE]]
                  ELSE CASE call.pc = "called" ->
                              IF mgr.redis = Absent THEN Return(<<>>)
                              ELSE Await(mgr, call, "lrange",
                                         [name |-> "lrange",
                                          key |-> <<"ncp:beats:", call.sessionId>>,
                                          start |-> 0 - call.arg, end |-> -1], now)
                         [] call.pc = "lrange" ->
                              \* beatIds.reverse(): most recent first
                              Get([i \in 1..Len(call.reply) |->
                                      call.reply[Len(call.reply) + 1 - i]], <<>>)
                         [] call.pc = "getBeat.get" ->
                              \* if (beat) beats.push(beat)
                              Get(call.beatIds,
                                  IF call.reply = Absent THEN call.beats
                                  ELSE Append(call.beats, call.reply[1].json)))
    /\ UNCHANGED <<ledger, clock, tus, engine>>

\* getCachedAnalysis(eventId), the event id in the place of the session id
GetCachedAnalysis ==
    /\ \E c \in 0..Len(calls) :
         \E call \in Calls("getCachedAnalysis", c, [sessionId : {"evt_1"}, arg : {Absent}]) :
            Async(c, call,
              LET mgr == manager
                  now == clock
              IN  CASE call.pc = "called" ->
                        IF mgr.redis = Absent
                        THEN [manager |-> mgr,
                              call |-> [call EXCEPT !.pc = "done", !.result = Absent]]
                        ELSE Await(mgr, call, "get",
                                   [name |-> "get",
                                    key |-> <<"ncp:event:", call.sessionId>>], now)
                   [] call.pc = "get" ->
                        \* get stands outside a try: its rejection is the
                        \* call's; else JSON.parse(data), or null
                        [manager |-> mgr,
                         call |-> [call EXCEPT
                                     !.pc = "done",
                                     !.thrown = call.rejected,
                                     !.result = IF call.reply = Absent THEN Absent
                                                ELSE Some(call.reply[1].json)]])
    /\ UNCHANGED <<ledger, clock, tus, engine>>

\* getEpisodeBeats(episodeId), the episode id in the place of the session
\* id; no method of the manager writes the key of an episode
GetEpisodeBeats ==
    /\ \E c \in 0..Len(calls) :
         \E call \in Calls("getEpisodeBeats", c,
              [sessionId : {"episode_1"}, arg : {Absent}]) :
            Async(c, call,
              LET mgr == manager
                  now == clock
                  Return(value) ==
                      [manager |-> mgr,
                       call |-> [call EXCEPT !.pc = "done", !.result = value]]
                  \* for (const beatId of beatIds): await this.getBeat(beatId)
                  Get(beatIds, beats) ==
                      IF beatIds = <<>> THEN Return(beats)
                      ELSE Await(mgr, [call EXCEPT !.beatIds = Tail(beatIds),
                                                   !.beats = beats],
                                 "getBeat.get",
                                 [name |-> "get",
                                  key |-> <<"ncp:beat:", Head(beatIds)>>], now)
              IN  CASE call.pc = "called" ->
                        IF mgr.redis = Absent THEN Return(<<>>)
                        ELSE Await(mgr, call, "get",
                                   [name |-> "get",
                                    key |-> <<"ncp:episode:", call.sessionId>>], now)
                   [] call.pc = "get" ->
                        \* get stands outside the try
                        IF call.rejected
                        THEN [manager |-> mgr,
                              call |-> [call EXCEPT !.pc = "done", !.thrown = TRUE]]
                        ELSE IF call.reply = Absent THEN Return(<<>>)
                        \* episodeData.beat_ids || []
                        ELSE Get(IF "beat_ids" \in DOMAIN call.reply[1].json
                                 THEN call.reply[1].json.beat_ids ELSE <<>>, <<>>)
                   [] call.pc = "getBeat.get" ->
                        \* catch: return []
                        IF call.rejected THEN Return(<<>>)
                        ELSE Get(call.beatIds,
                                 IF call.reply = Absent THEN call.beats
                                 ELSE Append(call.beats, call.reply[1].json)))
    /\ UNCHANGED <<ledger, clock, tus, engine>>

\* listSessions(), the pattern being "ncp:state:*"
ListSessions ==
    /\ \E c \in 0..Len(calls) :
         \E call \in Calls("listSessions", c, [sessionId : {""}, arg : {"ncp:state:"}]) :
            Async(c, call,
              LET mgr == manager
                  now == clock
                  \* keys.filter((k) => k !== "ncp:state:current")
                  \*     .map((k) => k.replace("ncp:state:", ""))
                  ids == {k[2] : k \in call.reply \ {<<"ncp:state:current">>}}
              IN  CASE call.pc = "called" ->
                        IF mgr.redis = Absent
                        THEN [manager |-> mgr,
                              call |-> [call EXCEPT !.pc = "done", !.result = {}]]
                        ELSE Await(mgr, call, "keys",
                                   [name |-> "keys", prefix |-> call.arg], now)
                   [] call.pc = "keys" ->
                        [manager |-> mgr,
                         call |-> [call EXCEPT
                                     !.pc = "done",
                                     !.thrown = call.rejected,
                                     !.result = IF call.rejected THEN Undefined
                                                ELSE ids]])
    /\ UNCHANGED <<ledger, clock, tus, engine>>

\* healthCheck(): the latency is in hours, as the clock is
HealthCheck ==
    /\ \E c \in 0..Len(calls) :
         \E call \in Calls("healthCheck", c, [sessionId : {""}, arg : {Absent}]) :
            Async(c, call,
              LET mgr == manager
                  now == clock
                  Return(value) ==
                      [manager |-> mgr,
                       call |-> [call EXCEPT !.pc = "done", !.result = value]]
                  healthy == [status |-> "healthy", connected |-> mgr.connected,
                              latency |-> now - call.start, timestamp |-> now]
              IN  CASE call.pc = "called" ->
                        \* const start = Date.now();
                        \* if (this.redis) await this.redis.ping()
                        IF mgr.redis = Absent THEN Return(healthy)
                        ELSE Await(mgr, call, "ping", [name |-> "ping"], now)
                   [] call.pc = "ping" ->
                        \* catch: unhealthy, with the message of the error
                        IF call.rejected
                        THEN Return([status |-> "unhealthy",
                                     connected |-> mgr.connected,
                                     timestamp |-> now])
                        ELSE Return(healthy))
    /\ UNCHANGED <<ledger, clock, tus, engine>>

NextManager ==
    \/ Elapse
    \/ Connect
    \/ Disconnect
    \/ GetState
    \/ GetOrCreateState
    \/ SaveState
    \/ GetCurrentSessionId
    \/ SetCurrentSession
    \/ AddBeatToSession
    \/ GetBeat
    \/ GetRecentBeats
    \/ CacheEventAnalysis
    \/ GetCachedAnalysis
    \/ RecordRoutingDecision
    \/ GetRoutingHistory
    \/ StartSessionEpisode
    \/ GetEpisodeBeats
    \/ ListSessions
    \/ DeleteSession
    \/ HealthCheck

SpecManager == InitLedger /\ [][NextManager]_vars

(***************************************************************************)
(* Claims about the routing history.                                       *)
(***************************************************************************)
\* The steps of recordRoutingDecision and getRoutingHistory against the
\* routing list: rpush appends the decision to the list of the session,
\* ltrim keeps its last 100 entries, both leave the lists of the other
\* sessions as they were; lrange of a getRoutingHistory call with a count
\* of minCount or more replies the last min(count, length) entries of the
\* list, in the order of the list, and the call returns them parsed.
RoutingAsStated(minCount) ==
    LET key == <<"ncp:routing:", last'.sessionId>>
        old == Recorded(last'.sessionId)
        new == IF key \in DOMAIN manager'.redis[1].lists
               THEN manager'.redis[1].lists[key] ELSE <<>>
        OthersKept == \A k \in DOMAIN manager.redis[1].lists \ {key} :
                         /\ k \in DOMAIN manager'.redis[1].lists
                         /\ manager'.redis[1].lists[k] = manager.redis[1].lists[k]
        kept == Min(RoutingHistoryLimit, Len(old))
        n == Min(last'.arg, Len(old))
    IN  /\ (last'.op = "recordRoutingDecision" /\ last'.pc = "rpush"
              /\ ~last'.rejected) =>
             /\ new = Append(old, [json |-> last'.arg])
             /\ OthersKept
        /\ (last'.op = "recordRoutingDecision" /\ last'.pc = "ltrim"
              /\ ~last'.rejected) =>
             /\ Len(new) <= 100
             /\ new = [i \in 1..kept |-> old[Len(old) - kept + i]]
             /\ OthersKept
        /\ (last'.op = "getRoutingHistory" /\ last'.pc = "lrange"
              /\ ~last'.rejected /\ last'.arg >= minCount) =>
             /\ last'.reply = [i \in 1..n |-> old[Len(old) - n + i]]
             /\ manager' = manager
        /\ (last'.op = "getRoutingHistory" /\ last'.pc = "done" /\ ~thrown'
              /\ last'.from = "lrange") =>
             last'.result = [i \in 1..Len(last'.reply) |-> last'.reply[i].json]

\* The routing list of a session holds at most 100 entries, and one more
\* for every recordRoutingDecision call on the session that has issued its
\* rpush and not yet its ltrim
RoutingListCapped ==
    \A sessionId \in {"session_1", "session_2"} :
        Len(Recorded(sessionId)) <=
            RoutingHistoryLimit
            + Cardinality({c \in 1..Len(calls) :
                              /\ calls[c].method = "recordRoutingDecision"
                              /\ calls[c].sessionId = sessionId
                              /\ calls[c].pc = "rpush"})

\* C20: after the recordRoutingDecision calls for a session the routing
\* list of the session holds at most 100 entries, which are the decisions
\* recorded last, in the order they were recorded (every call appends its
\* decision and then trims the list to its last 100 entries, the lists of
\* the other sessions being as they were); and
\* getRoutingHistory(session, count) returns the last min(count, length)
\* decisions of the list, in the order of the list.
C20_RoutingHistory == [](RoutingListCapped) /\ [][RoutingAsStated(0)]_vars

\* C20, for a count of 1 or more: the routing list of a session holds at
\* most 100 entries once every recordRoutingDecision call on it has issued
\* its ltrim, every call appends its decision and then trims the list to
\* its last 100 entries, the lists of the other sessions being as they
\* were; and getRoutingHistory(session, count) with count >= 1 returns the
\* last min(count, length) decisions of the list, in the order of the list.
C20_CappedHistory == [](RoutingListCapped) /\ [][RoutingAsStated(1)]_vars

\* 102 decisions were recorded for session_1 and one for session_2: the
\* list of session_1 holds the decisions 3 to 102, and getRoutingHistory
\* with count 50 returned the decisions 53 to 102
C20_Witness ==
    /\ last.op = "getRoutingHistory"
    /\ last.pc = "done"
    /\ last.sessionId = "session_1"
    /\ last.arg = 50
    /\ Len(Recorded("session_2")) = 1
    /\ LET list == Recorded("session_1")
       IN  /\ Len(list) = 100
           /\ list[1].json.id = <<"rd_", 3>>
           /\ list[100].json.id = <<"rd_", 102>>
    /\ Len(last.result) = 50
    /\ last.result[1].id = <<"rd_", 53>>

(***************************************************************************)
(* Claims about connect.                                                   *)
(***************************************************************************)
\* C21: every call of connect, without a client or with a client of the
\* caller whose ping fails, resolves and leaves the manager connected with
\* a store that answers; and a getOrCreateState call made after a connect
\* does not raise and returns the state of the session.
C21_ConnectDegrades ==
    [][/\ (last'.op = "connect" /\ last'.pc = "done") =>
            /\ ~thrown'
            /\ manager'.connected
            /\ manager'.redis # Absent
            /\ manager'.redis[1].reachable
       /\ (last'.op = "getOrCreateState" /\ last'.pc = "done"
             /\ manager.connected) =>
            /\ ~thrown'
            /\ last'.result # Absent
    ]_vars

\* C21, for the calls the code degrades on: a call of connect without a
\* client resolves and leaves the manager connected with a new, empty store
\* that answers.  A call with a client makes the client the store of the
\* manager before it pings it; it resolves and leaves the manager connected
\* when the ping is answered, and it raises and leaves the manager as it
\* was, with the client as its store, when the ping is rejected.  A
\* getOrCreateState call raises only when its get is rejected; otherwise it
\* returns a state of the session, and after the setex of its saveState the
\* state of the session is in the store.
C21_ConnectWithoutClient ==
    [][/\ (last'.op = "connect" /\ last'.pc = "done" /\ last'.arg = Absent) =>
            /\ ~thrown'
            /\ manager'.connected
            /\ manager'.redis = Some([data |-> <<>>, lists |-> <<>>,
                                      expiry |-> <<>>, reachable |-> TRUE])
       /\ (last'.op = "connect" /\ last'.pc = "ping") =>
            /\ manager'.redis = last'.arg
            /\ manager'.connected = manager.connected
       /\ (last'.op = "connect" /\ last'.pc = "done" /\ last'.arg # Absent) =>
            /\ thrown' = last'.rejected
            /\ manager'.redis = manager.redis
            /\ manager'.connected = (~thrown' \/ manager.connected)
       /\ (last'.op = "getOrCreateState" /\ last'.pc = "done") =>
            /\ thrown' = (last'.from = "getState.get" /\ last'.rejected)
            /\ ~thrown' => /\ last'.result # Absent
                           /\ last'.result[1].sessionId = last'.sessionId
       /\ (last'.op = "getOrCreateState" /\ last'.pc = "saveState.setex"
             /\ ~last'.rejected) =>
            <<"ncp:state:", last'.sessionId>> \in DOMAIN manager'.redis[1].data
    ]_vars

\* connect() without a client has returned on a manager whose store was a
\* client that cannot be reached: the manager is connected to a new, empty
\* store that answers
C21_Witness ==
    /\ last.op = "connect"
    /\ last.pc = "done"
    /\ last.arg = Absent
    /\ ~thrown
    /\ manager.connected
    /\ manager.redis # Absent
    /\ manager.redis[1].reachable
    /\ manager.redis[1].lists = <<>>

(***************************************************************************)
(* DecompositionGraph (prompt-decomposition-engine).                       *)
(* DirectionalDecomposer, IntentExtractor, DependencyMapper,               *)
(* MedicineWheelBridge and ActionStackBuilder belong to another package:   *)
(* lib says, for one call of invoke, which of their calls return and which *)
(* throw, and what enrich reports as ceremonyRequired.  null is Absent.    *)
(***************************************************************************)
\* invoke that never looks at the status after the west node
invoke_neverHolds(options, prompt, sessionId, lib) ==
    [state |-> [status |-> "complete", ceremonyRequired |-> lib.ceremonyRequired,
                decomposition |-> Some("decomposition"), errors |-> <<>>],
     ran |-> <<"east", "south", "west", "north">>]

\* new DecompositionGraph(options).invoke(prompt, sessionId): the state
\* returned and the nodes run, in the order they ran
invoke(options, prompt, sessionId, lib) ==
    LET \* constructor: options?.enforeCeremony ?? false
        enforceCeremony ==
            IF options = Absent \/ "enforeCeremony" \notin DOMAIN options[1]
            THEN FALSE ELSE options[1].enforeCeremony
        createInitialState ==
            [prompt |-> prompt,
             sessionId |-> IF sessionId = Undefined THEN "uuid" ELSE sessionId,
             directionalAnalysis |-> Absent, intentResult |-> Absent,
             dependencyGraph |-> Absent, executionOrder |-> Absent,
             wheelEnriched |-> Absent, ceremonyRequired |-> FALSE,
             relationalGuidance |-> <<>>, decomposition |-> Absent,
             status |-> "pending", errors |-> <<>>]
        \* { ...current, ...updates }
        mergeState(current, updates) == updates @@ current
        eastNode(state) ==
            IF lib.decompose = "returns" /\ lib.extract = "returns"
            THEN [directionalAnalysis |-> Some("directionalAnalysis"),
                  intentResult |-> Some("intentResult"),
                  status |-> "east_complete"]
            ELSE [errors |-> Append(state.errors, "EAST: message"),
                  status |-> "east_complete"]
        southNode(state) ==
            IF state.intentResult = Absent
            THEN [errors |-> Append(state.errors, "SOUTH: No intent result from EAST"),
                  status |-> "south_complete"]
            ELSE IF lib.buildGraph = "returns"
            THEN [dependencyGraph |-> Some("dependencyGraph"),
                  executionOrder |-> Some("executionOrder"),
                  status |-> "south_complete"]
            ELSE [errors |-> Append(state.errors, "SOUTH: message"),
                  status |-> "south_complete"]
        westNode(state) ==
            IF state.directionalAnalysis = Absent
            THEN [errors |-> Append(state.errors,
                                    "WEST: No directional analysis from EAST"),
                  status |-> "west_complete"]
            ELSE IF lib.enrich = "returns"
            THEN [wheelEnriched |-> Some("wheelEnriched"),
                  ceremonyRequired |-> lib.ceremonyRequired,
                  relationalGuidance |-> <<"guidance">>,
                  status |-> IF lib.ceremonyRequired THEN "ceremony_hold"
                             ELSE "west_complete"]
            ELSE [errors |-> Append(state.errors, "WEST: message"),
                  status |-> "west_complete"]
        northNode(state) ==
            IF state.directionalAnalysis = Absent \/ state.intentResult = Absent
            THEN [errors |-> Append(state.errors, "NORTH: Missing EAST results"),
                  status |-> "complete"]
            ELSE IF lib.build = "returns"
            THEN [decomposition |-> Some("decomposition"), status |-> "complete"]
            ELSE [errors |-> Append(state.errors, "NORTH: message"),
                  status |-> "complete"]
        afterEast  == mergeState(createInitialState, eastNode(createInitialState))
        afterSouth == mergeState(afterEast, southNode(afterEast))
        afterWest  == mergeState(afterSouth, westNode(afterSouth))
    IN  IF afterWest.status = "ceremony_hold" /\ enforceCeremony
        THEN [state |-> afterWest, ran |-> <<"east", "south", "west">>]
        ELSE [state |-> mergeState(afterWest, northNode(afterWest)),
              ran |-> <<"east", "south", "west", "north">>]

\* invoke(prompt, sessionId) on a graph built with no options, with empty
\* options, or with enforeCeremony given
Invoke ==
    \E options \in {Absent, Some([none |-> TRUE])}
                      \cup {Some([enforeCeremony |-> b]) : b \in BOOLEAN},
       sessionId \in {Undefined, "session-123"},
       lib \in [decompose : {"returns", "throws"}, extract : {"returns", "throws"},
                buildGraph : {"returns", "throws"}, enrich : {"returns", "throws"},
                ceremonyRequired : BOOLEAN, build : {"returns", "throws"}] :
        /\ last' = [op |-> "invoke", options |-> options, lib |-> lib,
                    result |-> invoke(options, "prompt", sessionId, lib)]
        /\ thrown' = FALSE
        /\ UNCHANGED <<ledger, clock, tus, engine, manager, calls, history>>


(***************************************************************************)
(* CeremonyGate (ceremony_gate.ts).  balance, coherence and the thresholds *)
(* are in hundredths, relationalScore in two-hundredths; a direction that  *)
(* is undefined is Absent.                                                 *)
(***************************************************************************)
BalanceThreshold == 40      \* the default of options?.balanceThreshold ?? 0.4
CoherenceThreshold == 30    \* the default of options?.coherenceThreshold ?? 0.3

\* evaluate of a gate that holds only for a requested human review
evaluate_advisoryOnly(options, decomposition, perspective) ==
    LET hasCeremonyDomain ==
            SomeIncluded({"indigenous", "ceremony", "medicine wheel", "elder",
                          "sacred", "protocol"},
                         StringToLowerCase(decomposition.prompt))
        flags == IF perspective = Absent THEN {}
                 ELSE UNION {{i.flags[k] : k \in 1..Len(i.flags)} :
                                i \in {perspective[1].insights[n] :
                                          n \in 1..Len(perspective[1].insights)}}
        human == \/ hasCeremonyDomain /\ decomposition.directions.west = Some(<<>>)
                 \/ \E f \in flags : "stop-sign" \in TermsIn(f)
        needed == human \/ \E f \in flags : "warning-sign" \in TermsIn(f)
    IN  [decision |-> IF human THEN "hold" ELSE "caution",
         reasons |-> <<>>, relationalScore |-> 2 * decomposition.balance,
         ceremonyNeeded |-> needed, humanReviewRequested |-> human]

\* new CeremonyGate(options).evaluate(decomposition, perspective)
evaluate(options, decomposition, perspective) ==
    LET \* constructor: options?.x ?? the default of x
        Option(x, default) == IF options = Absent \/ x \notin DOMAIN options[1]
                              THEN default ELSE options[1][x]
        balanceThreshold == Option("balanceThreshold", BalanceThreshold)
        coherenceThreshold == Option("coherenceThreshold", CoherenceThreshold)
        enforce == Option("enforce", FALSE)
        \* `Balance (${balance}%) below threshold (${balanceThreshold}%)`
        balanceReasons ==
            IF decomposition.balance < balanceThreshold
            THEN <<[text |-> "Balance below threshold",
                    value |-> <<decomposition.balance, balanceThreshold>>]>>
            ELSE <<>>
        neglectedReasons ==
            IF Len(decomposition.neglectedDirections) > 0
            THEN <<[text |-> "Neglected directions",
                    value |-> decomposition.neglectedDirections]>>
            ELSE <<>>
        lower == StringToLowerCase(decomposition.prompt)
        ceremonyKeywords == {"indigenous", "ceremony", "medicine wheel", "elder",
                             "sacred", "protocol"}
        hasCeremonyDomain == SomeIncluded(ceremonyKeywords, lower)
        \* hasCeremonyDomain && decomposition.directions.west?.length === 0
        domainWithoutWest ==
            /\ hasCeremonyDomain
            /\ decomposition.directions.west # Absent
            /\ Len(decomposition.directions.west[1]) = 0
        domainReasons ==
            IF domainWithoutWest
            THEN <<[text |-> "Indigenous/ceremonial domain work without validation/reflection dimension",
                    value |-> <<>>]>>
            ELSE <<>>
        \* perspective.insights.flatMap((i) => i.flags)
        RECURSIVE FlatFlags(_)
        FlatFlags(n) == IF n = 0 THEN <<>>
                        ELSE FlatFlags(n - 1) \o perspective[1].insights[n].flags
        allFlags == IF perspective = Absent THEN <<>>
                    ELSE FlatFlags(Len(perspective[1].insights))
        criticalFlags == SelectSeq(allFlags, LAMBDA f : "stop-sign" \in TermsIn(f))
        warnings == SelectSeq(allFlags, LAMBDA f : "warning-sign" \in TermsIn(f))
        coherenceReasons ==
            IF perspective # Absent /\ perspective[1].coherence < coherenceThreshold
            THEN <<[text |-> "Three-universe coherence below threshold",
                    value |-> perspective[1].coherence]>>
            ELSE <<>>
        FlagReasons(list) == [k \in 1..Len(list) |-> [text |-> list[k], value |-> <<>>]]
        reasons == balanceReasons \o neglectedReasons \o domainReasons
                   \o coherenceReasons \o FlagReasons(criticalFlags)
                   \o FlagReasons(warnings)
        ceremonyNeeded ==
            domainWithoutWest \/ Len(criticalFlags) > 0 \/ Len(warnings) > 0
        humanReviewRequested == domainWithoutWest \/ Len(criticalFlags) > 0
        \* (decomposition.balance + perspective.coherence) / 2
        relationalScore ==
            IF perspective = Absent THEN 2 * decomposition.balance
            ELSE decomposition.balance + perspective[1].coherence
        decision == IF humanReviewRequested \/ (ceremonyNeeded /\ enforce)
                    THEN "hold"
                    ELSE IF Len(reasons) > 0 THEN "caution"
                    ELSE "proceed"
    IN  [decision |-> decision,
         reasons |-> reasons,
         relationalScore |-> Max(0, Min(200, relationalScore)),
         ceremonyNeeded |-> ceremonyNeeded,
         humanReviewRequested |-> humanReviewRequested]

\* gate.evaluate(decomposition, perspective) and
\* gate.canProceed(decomposition, perspective) on a gate built with no
\* options, with enforce given, or with thresholds of its own
Evaluate ==
    \E options \in {Absent} \cup {Some([enforce |-> b]) : b \in BOOLEAN}
                     \cup {Some([balanceThreshold |-> 60]),
                           Some([balanceThreshold |-> 90, coherenceThreshold |-> 90]),
                           Some([balanceThreshold |-> 10, coherenceThreshold |-> 10,
                                 enforce |-> TRUE])},
       balance \in {20, 40},
       neglectedDirections \in {<<>>, <<"west">>},
       prompt \in {<<"Build", "module">>, <<"Deploy", "Indigenous", "ceremony">>},
       west \in {Absent, Some(<<>>), Some(<<"reflect">>)},
       perspective \in
          {Absent} \cup
          {Some([coherence |-> c, insights |-> i]) :
              c \in {10, 30},
              i \in {<<>>, <<[flags |-> <<"note">>]>>,
                     <<[flags |-> <<"warning-sign no reflection">>]>>,
                     <<[flags |-> <<"stop-sign consent missing">>],
                       [flags |-> <<"warning-sign no reflection", "note">>]>>}} :
        LET decomposition == [balance |-> balance,
                              neglectedDirections |-> neglectedDirections,
                              prompt |-> prompt, directions |-> [west |-> west]]
            result == evaluate(options, decomposition, perspective)
        IN  /\ last' = [op |-> "evaluate", options |-> options,
                        decomposition |-> decomposition,
                        perspective |-> perspective, result |-> result,
                        \* canProceed: result.decision !== GateDecision.HOLD
                        canProceed |-> result.decision # "hold"]
            /\ thrown' = FALSE
            /\ UNCHANGED <<ledger, clock, tus, engine, manager, calls, history>>

NextGraph == Invoke \/ Evaluate

SpecGraph == InitLedger /\ [][NextGraph]_vars

(***************************************************************************)
(* Claims about the decomposition graph.                                   *)
(***************************************************************************)
\* C22: invoke runs east, south, west and north in that order, each once,
\* and returns a state of status complete, except when the graph enforces
\* the ceremony and the west node reports ceremonyRequired: then it runs
\* east, south and west only and returns status ceremony_hold with
\* decomposition null.  Without enforcement a required ceremony does not
\* stop the pipeline, and the status returned is never pending,
\* east_complete, south_complete or west_complete.
C22_InvokeOrder ==
    last.op = "invoke" =>
        LET state == last.result.state
            ran == last.result.ran
            enforced == /\ last.options # Absent
                        /\ "enforeCeremony" \in DOMAIN last.options[1]
                        /\ last.options[1].enforeCeremony
        IN  IF enforced /\ state.ceremonyRequired
            THEN /\ ran = <<"east", "south", "west">>
                 /\ state.status = "ceremony_hold"
                 /\ state.decomposition = Absent
            ELSE /\ ran = <<"east", "south", "west", "north">>
                 /\ state.status = "complete"

\* a graph that enforces the ceremony returned after the west node, which
\* reported ceremonyRequired
C22_Witness ==
    /\ last.op = "invoke"
    /\ last.options = Some([enforeCeremony |-> TRUE])
    /\ last.result.state.ceremonyRequired
    /\ last.result.state.status = "ceremony_hold"
    /\ last.result.ran = <<"east", "south", "west">>
    /\ last.result.state.wheelEnriched # Absent

(***************************************************************************)
(* Claims about the ceremony gate.                                         *)
(***************************************************************************)
\* C23: evaluate returns hold exactly when humanReviewRequested is true or
\* ceremonyNeeded is true on a gate built with enforce = true; otherwise
\* caution exactly when the reasons are not empty, otherwise proceed;
\* canProceed is true exactly when the decision is not hold.  On a gate
\* built without enforce a result with ceremonyNeeded and without
\* humanReviewRequested is never hold, and a prompt containing indigenous
\* with an empty west direction yields hold with humanReviewRequested.
C23_GateDecision ==
    last.op = "evaluate" =>
        LET r == last.result
            enforce == /\ last.options # Absent
                       /\ "enforce" \in DOMAIN last.options[1]
                       /\ last.options[1].enforce
            hold == r.humanReviewRequested \/ (r.ceremonyNeeded /\ enforce)
        IN  /\ r.decision \in {"proceed", "caution", "hold"}
            /\ r.decision = "hold" <=> hold
            /\ r.decision = "caution" <=> (~hold /\ Len(r.reasons) > 0)
            /\ r.decision = "proceed" <=> (~hold /\ Len(r.reasons) = 0)
            /\ last.canProceed <=> r.decision # "hold"
            /\ (~enforce /\ r.ceremonyNeeded /\ ~r.humanReviewRequested) =>
                  r.decision # "hold"
            /\ (Includes(StringToLowerCase(last.decomposition.prompt), "indigenous")
                  /\ last.decomposition.directions.west = Some(<<>>)) =>
                  /\ r.decision = "hold"
                  /\ r.humanReviewRequested

\* a gate built without options met a warning flag only: ceremonyNeeded
\* without a human review, and the decision is caution
C23_Witness ==
    /\ last.op = "evaluate"
    /\ last.options = Absent
    /\ last.result.ceremonyNeeded
    /\ ~last.result.humanReviewRequested
    /\ last.result.decision = "caution"
    /\ last.canProceed

(***************************************************************************)
(* Claims about the single scorers.                                        *)
(***************************************************************************)
\* The pacing score of the last result against 85 - C - R, where C is 20
\* without a climax, 15 when the last climax stands in the first half, and
\* R is min(20, 5 * maxRun), taken for every run or only for a run longer
\* than 3; and the issue of the run against maxRun > 3
PacingAsStated(everyRun) ==
    engine.result # <<>> =>
        LET beats == engine.beats
            pacing == engine.result[1].coherenceScore.pacing
            High(i) == \E ht \in {"confrontation", "crisis", "climax", "revelation"} :
                           ht \in TermsIn(ToLowerCase(beats[i].narrativeFunction))
            climaxes == {i \in 1..Len(beats) :
                            "climax" \in TermsIn(ToLowerCase(beats[i].narrativeFunction))}
            IsRun(i, n) == \A k \in i..(i + n - 1) : High(k)
            maxRun == CHOOSE n \in 0..Len(beats) :
                         /\ n = 0 \/ \E i \in 1..(Len(beats) - n + 1) : IsRun(i, n)
                         /\ \A m \in (n + 1)..Len(beats) :
                               \A i \in 1..(Len(beats) - m + 1) : ~IsRun(i, m)
            lastClimax == CHOOSE i \in climaxes : \A k \in climaxes : k <= i
            C == IF climaxes = {} THEN 20
                 ELSE IF 2 * (lastClimax - 1) < Len(beats) THEN 15 ELSE 0
            R == IF everyRun \/ maxRun > 3 THEN Min(20, 5 * maxRun) ELSE 0
            runIssues == {i \in 1..Len(pacing.issues) :
                             IssueIncludes(pacing.issues[i], "consecutive high-tension")}
        IN  IF Len(beats) < 3
            THEN /\ pacing.score = Fraction(50, 1)
                 /\ Len(pacing.issues) = 1
            ELSE /\ pacing.score = Fraction(Max(0, Min(100, 85 - C - R)), 1)
                 /\ runIssues # {} <=> maxRun > 3

\* C24: for at least 3 beats the pacing score is clamp(85 - C - R, 0, 100),
\* C being 20 if no beat is a climax, else 15 if the index of the last
\* climax is below half the beat count, else 0, and R being
\* min(20, 5 * maxRun) only if the longest run of high-tension beats is
\* longer than 3 and 0 otherwise, a run of 3 or fewer producing neither an
\* issue nor a penalty; for fewer than 3 beats the score is 50 with one
\* issue.
C24_PacingScore == PacingAsStated(FALSE)

\* C24, with the penalty the code takes: R is min(20, 5 * maxRun) for every
\* run, of whatever length; the issue of the run is raised only for a run
\* longer than 3.
C24_PacingScoreEveryRun == PacingAsStated(TRUE)

\* three beats (setup, beat, Climax) whose longest run of high-tension beats
\* is 1, with the climax at the end: the score is 85 - 5 = 80 and no issue
\* is raised
C24_Witness ==
    /\ last.op = "analyze"
    /\ engine.result # <<>>
    /\ Len(engine.beats) = 3
    /\ engine.beats[1].narrativeFunction = "setup"
    /\ engine.beats[2].narrativeFunction = "beat"
    /\ engine.beats[3].narrativeFunction = "Climax"
    /\ engine.result[1].coherenceScore.pacing.score = Fraction(80, 1)
    /\ engine.result[1].coherenceScore.pacing.issues = <<>>
\* C25: for fewer than 2 beats the continuity score is 70 with one issue;
\* otherwise it is 90 - 20 * [the sequence values are not non-decreasing in
\* list order] - 15 * [some sequence value occurs twice] - 5 * [between 1
\* and 3 values of 1..maxSequence are missing], with no issue and no
\* penalty when more than 3 values are missing.  The beats of sequence
\* 3, 1, 2 score below 90 with the issue "not in order"; the score is never
\* below 50, its status is never critical and no continuity gap is
\* critical.
C25_ContinuityScore ==
    engine.result # <<>> =>
        LET beats == engine.beats
            continuity == engine.result[1].coherenceScore.continuity
            gaps == engine.result[1].gaps
            seqs == {beats[i].sequence : i \in 1..Len(beats)}
            unordered == \E i \in 1..Len(beats), j \in 1..Len(beats) :
                            i < j /\ beats[i].sequence > beats[j].sequence
            twice == \E i \in 1..Len(beats), j \in 1..Len(beats) :
                        i # j /\ beats[i].sequence = beats[j].sequence
            missing == {x \in 1..100 : /\ x \notin seqs
                                       /\ \E y \in seqs : x < y}
            few == Cardinality(missing) \in 1..3
            Flag(b) == IF b THEN 1 ELSE 0
            Has(phrase) == \E i \in 1..Len(continuity.issues) :
                              IssueIncludes(continuity.issues[i], phrase)
        IN  /\ Len(beats) < 2 =>
                  /\ continuity.score = Fraction(70, 1)
                  /\ Len(continuity.issues) = 1
            /\ Len(beats) >= 2 =>
                  /\ continuity.score =
                        Fraction(90 - 20 * Flag(unordered) - 15 * Flag(twice)
                                    - 5 * Flag(few), 1)
                  /\ Len(continuity.issues) = Flag(unordered) + Flag(twice) + Flag(few)
                  /\ Has("not in order") <=> unordered
                  /\ Has("Duplicate") <=> twice
                  /\ Has("Missing") <=> few
            /\ [i \in 1..Len(beats) |-> beats[i].sequence] = <<3, 1, 2>> =>
                  /\ continuity.score.num < 90 * continuity.score.den
                  /\ Has("not in order")
            /\ continuity.score.num >= 50 * continuity.score.den
            /\ continuity.status # "critical"
            /\ \A i \in 1..Len(gaps) :
                  gaps[i].gapType = "continuity" => gaps[i].severity # "critical"

\* beats of sequence 4, 1, 1, 3 were analyzed: they are out of order, repeat
\* the value 1 and miss the value 2, and score 50 with status warning
C25_Witness ==
    /\ last.op = "analyze"
    /\ engine.result # <<>>
    /\ [i \in 1..Len(engine.beats) |-> engine.beats[i].sequence] = <<4, 1, 1, 3>>
    /\ LET continuity == engine.result[1].coherenceScore.continuity
       IN  /\ continuity.score = Fraction(50, 1)
           /\ continuity.status = "warning"
           /\ Len(continuity.issues) = 3

\* The flow score of the last result against 85 - 10 * J - 15 * V, where V
\* is 1 if an escalation function occurs before any setup-type function and
\* J counts the adjacent beat pairs whose tones match a jarring pair, either
\* once per pair of beats or once per jarring pair matched
FlowAsStated(oncePerJarringPair) ==
    engine.result # <<>> =>
        LET beats == engine.beats
            flow == engine.result[1].coherenceScore.narrativeFlow
            jarringPairs == {<<"devastating", "joyful">>, <<"fearful", "peaceful">>,
                             <<"triumphant", "devastating">>}
            In(tone, word) == word \in TermsIn(ToLowerCase(tone))
            Matches(i, p) ==
                /\ beats[i].emotionalTone # "" /\ beats[i + 1].emotionalTone # ""
                /\ \/ In(beats[i].emotionalTone, p[1]) /\ In(beats[i + 1].emotionalTone, p[2])
                   \/ In(beats[i].emotionalTone, p[2]) /\ In(beats[i + 1].emotionalTone, p[1])
            J == IF oncePerJarringPair
                 THEN Cardinality({<<i, p>> \in (1..(Len(beats) - 1)) \X jarringPairs :
                                      Matches(i, p)})
                 ELSE Cardinality({i \in 1..(Len(beats) - 1) :
                                      \E p \in jarringPairs : Matches(i, p)})
            SetupType(i) == beats[i].narrativeFunction
                               \in {"setup", "introduction", "discovery"}
            Escalation(i) == beats[i].narrativeFunction
                                \in {"confrontation", "crisis", "climax"}
            V == IF \E i \in 1..Len(beats) :
                       Escalation(i) /\ \A k \in 1..i : ~SetupType(k)
                 THEN 1 ELSE 0
        IN  IF Len(beats) < 2
            THEN flow.score = Fraction(50, 1)
            ELSE /\ flow.score = Fraction(Max(0, Min(100, 85 - 10 * J - 15 * V)), 1)
                 /\ CountIssues(flow.issues, "without proper setup") = V
                 /\ CountIssues(flow.issues, "Jarring") = J

\* C26: for at least 2 beats the flow score is clamp(85 - 10 * J - 15 * V,
\* 0, 100), J being the number of adjacent beat pairs whose two tones match
\* at least one jarring pair in either order, each adjacent transition
\* counted once however many pairs it matches, and V being 1 if an
\* escalation function occurs before any setup-type function has appeared,
\* else 0, the violation being reported at most once; for fewer than 2
\* beats the score is 50.
C26_FlowScore == FlowAsStated(FALSE)

\* C26, with the count the code takes: J has one unit, and the issue list
\* one jarring issue, for every jarring pair an adjacent transition matches.
C26_FlowScorePerJarringPair == FlowAsStated(TRUE)

\* the beats of tones "devastating" and "Joyful and Triumphant", the first
\* a crisis: the one transition matches two jarring pairs and the score is
\* 85 - 20 - 15 = 50, with two jarring issues
C26_Witness ==
    /\ last.op = "analyze"
    /\ engine.result # <<>>
    /\ Len(engine.beats) = 2
    /\ engine.beats[1].emotionalTone = "devastating"
    /\ engine.beats[1].narrativeFunction = "crisis"
    /\ engine.beats[2].emotionalTone = "Joyful and Triumphant"
    /\ LET flow == engine.result[1].coherenceScore.narrativeFlow
       IN  /\ flow.score = Fraction(50, 1)
           /\ CountIssues(flow.issues, "Jarring") = 2

\* In every result of analyze a critical gap belongs to a component that is
\* critical and has at least one issue; when there is at least one theme,
\* no theme is flagged and the mean coverage is below 0.3, the theme score
\* is below 50 and critical with an empty issue list, no gap belongs to it,
\* no gap is critical and the priorities are the single sentence "Minor
\* polish items only - narrative is coherent".  With othersCount the last
\* two hold of the results in which no other component is critical and,
\* for the priorities, no gap is moderate.
CriticalAsStated(othersCount) ==
    engine.result # <<>> =>
        LET result == engine.result[1]
            score == result.coherenceScore
            gaps == result.gaps
            beats == engine.beats
            themes == engine.themes
            theme == score.themeSaturation
            ComponentOf(key) ==
                CASE key = "narrativeFlowScore" -> score.narrativeFlow
                  [] key = "characterConsistencyScore" -> score.characterConsistency
                  [] key = "pacingScore" -> score.pacing
                  [] key = "themeSaturationScore" -> theme
                  [] key = "continuityScore" -> score.continuity
            Critical(i) == gaps[i].severity = "critical"
            \* the beats tagging the theme of a name (the last theme of the name)
            Tagging(t) == Cardinality({i \in 1..Len(beats) :
                             \E k \in 1..Len(beats[i].thematicTags) :
                                beats[i].thematicTags[k] = themes[t].id})
            lastOfName == {t \in 1..Len(themes) :
                              \A u \in (t + 1)..Len(themes) :
                                  themes[u].name # themes[t].name}
            RECURSIVE Tagged(_)
            Tagged(S) == IF S = {} THEN 0
                         ELSE LET t == CHOOSE x \in S : TRUE
                              IN  Tagging(t) + Tagged(S \ {t})
            \* the mean coverage is below 0.3
            lowCoverage == 10 * Tagged(lastOfName)
                              < 3 * Max(Len(beats), 1) * Cardinality(lastOfName)
            othersCritical == \E c \in {score.narrativeFlow, score.characterConsistency,
                                        score.pacing, score.continuity} :
                                 c.status = "critical"
        IN  /\ \A i \in 1..Len(gaps) :
                  Critical(i) =>
                      /\ ComponentOf(gaps[i].location.component).status = "critical"
                      /\ \E k \in 1..Len(ComponentOf(gaps[i].location.component).issues) :
                            ComponentOf(gaps[i].location.component).issues[k]
                               = gaps[i].description
            /\ (Len(themes) > 0 /\ theme.issues = <<>> /\ lowCoverage) =>
                  /\ theme.score.num < 50 * theme.score.den
                  /\ theme.status = "critical"
                  /\ \A i \in 1..Len(gaps) :
                        gaps[i].location.component # "themeSaturationScore"
                  /\ (othersCount => ~othersCritical) =>
                        \A i \in 1..Len(gaps) : ~Critical(i)
                  /\ (othersCount =>
                         /\ ~othersCritical
                         /\ \A i \in 1..Len(gaps) : gaps[i].severity # "moderate") =>
                        result.trinityAssessment.priorities =
                           <<Issue("Minor polish items only - narrative is coherent",
                                   "", 0, <<>>)>>

\* C30: a component can be critical without producing any gap.  In every
\* result of analyze a critical gap belongs to a component that is critical
\* and has at least one issue; when there is at least one theme, no theme is
\* flagged and the mean coverage is below 0.3, the theme score is below 50
\* and critical with an empty issue list, so no gap belongs to it, while no
\* gap is critical and the priorities are the single sentence "Minor polish
\* items only - narrative is coherent".
C30_NoGapIsCritical == CriticalAsStated(FALSE)

\* C30, with the other components counted: as above, but no gap is critical
\* when in addition no other component is critical, and the priorities are
\* the single sentence when moreover no gap is moderate (the gaps of the
\* other components keep their severities and their place in the
\* priorities).
C30_CriticalWithoutGap == CriticalAsStated(TRUE)

\* one theme of strength 0.5 and three beats, none tagging it, were
\* analyzed: the theme score is 20 and critical without an issue, the
\* result has gaps, none of them critical, and the priorities are the
\* single sentence
C30_Witness ==
    /\ last.op = "analyze"
    /\ engine.result # <<>>
    /\ Len(engine.themes) = 1
    /\ engine.themes[1].strength = 5
    /\ Len(engine.beats) = 3
    /\ \A i \in 1..3 : engine.beats[i].thematicTags = <<"theme_1">>
    /\ LET result == engine.result[1]
           theme == result.coherenceScore.themeSaturation
       IN  /\ theme.score.num = 20 * theme.score.den
           /\ theme.status = "critical"
           /\ theme.issues = <<>>
           /\ result.gaps # <<>>
           /\ \A i \in 1..Len(result.gaps) : result.gaps[i].severity = "minor"
           /\ result.trinityAssessment.priorities =
                 <<Issue("Minor polish items only - narrative is coherent", "", 0, <<>>)>>

(***************************************************************************)
(* SpecLedger: the six operations that write the ledger, in any order.     *)
(***************************************************************************)
MaxLedgerDecisions == 2     \* routing decisions in the ledger of SpecLedger

NextLedger ==
    \/ \E beat \in [id : {"beat_1"}, narrativeFunction : {"crisis"}, leadUniverse : {"ceremony"}]
                   \cup EpisodeBeatInputs :
          Len(ledger.beats) < MaxBeats /\ AddBeat(beat)
    \/ \E decision \in RoutingDecisionInputs :
          /\ Len(ledger.routingDecisions) < MaxLedgerDecisions
          /\ AddRoutingDecision(decision)
    \/ \E id \in {"the-builder", "constructor"}, d \in {"Learned empathy"} :
          TotalGrowth(ledger) < MaxGrowth /\ UpdateCharacterArc(id, 4, d)
    \/ \E id \in {"integration", "nothing"} : UpdateThemeStrength(id, 4)
    \/ \E id \in {"episode_2"} : StartNewEpisode(id)
    \/ CalculateCoherence

SpecLedger == InitLedger /\ [][NextLedger]_vars

\* C27: in every ledger reachable from createUnifiedNarrativeState by
\* addBeat, addRoutingDecision, updateCharacterArc, updateThemeStrength,
\* startNewEpisode and calculateCoherence, position.beatCount is the length
\* of the beat list, episodeBeatsCount lies between 0 and that length,
\* position.currentBeatId is undefined for the empty list and otherwise the
\* id of the last beat, and position.leadUniverse is that of the last beat
\* once one exists; and only addBeat changes the beat list or the position.
C27_LedgerInvariant ==
    /\ [](/\ ledger.position.beatCount = Len(ledger.beats)
          /\ ledger.episodeBeatsCount >= 0
          /\ ledger.episodeBeatsCount <= Len(ledger.beats)
          /\ ledger.beats = <<>> => ledger.position.currentBeatId = Undefined
          /\ ledger.beats # <<>> =>
                /\ ledger.position.currentBeatId = LastBeat(ledger).id
                /\ ledger.position.leadUniverse = LastBeat(ledger).leadUniverse)
    /\ [][(ledger'.beats # ledger.beats \/ ledger'.position # ledger.position)
             => last'.op = "addBeat"]_vars

\* a ledger of two beats, the last one led by the ceremony universe, on
\* which a routing decision was added, a character arc and a theme were
\* updated, the coherence was calculated and an episode was started last
C27_Witness ==
    /\ last.op = "startNewEpisode"
    /\ Len(ledger.beats) = 2
    /\ LastBeat(ledger).leadUniverse = "ceremony"
    /\ ledger.position.leadUniverse = "ceremony"
    /\ ledger.position.beatCount = 2
    /\ ledger.episodeBeatsCount = 0
    /\ ledger.routingDecisions # <<>>
    /\ ledger.characters["the-builder"].growthPoints # <<>>
    /\ ledger.themes["integration"].strength > 5
    /\ ledger.overallCoherence # Fraction(5, 10)

\* the last beat of the ledger has function resolution
EndsResolved(state) ==
    /\ state.beats # <<>>
    /\ LastBeat(state).narrativeFunction = "resolution"

\* C29: startNewEpisode clears only the beat-count trigger of the episode
\* rule.  Right after startNewEpisode, shouldCreateNewEpisode is true if the
\* last beat of the ledger has function resolution and false otherwise (no
\* beat included); while the last beat is a resolution it is true in every
\* state, so it stays true across further startNewEpisode calls, until a
\* beat whose function is not resolution is appended.
C29_ResolutionOutlivesEpisode ==
    /\ [](EndsResolved(ledger) => shouldCreateNewEpisode(ledger))
    /\ [][/\ last'.op = "startNewEpisode" =>
                /\ ledger'.episodeBeatsCount = 0
                /\ shouldCreateNewEpisode(ledger') = EndsResolved(ledger)
          /\ (last.op = "startNewEpisode" /\ last'.op = "shouldCreateNewEpisode") =>
                last'.result = EndsResolved(ledger)
          /\ (EndsResolved(ledger) /\ ~shouldCreateNewEpisode(ledger')) =>
                /\ last'.op = "addBeat"
                /\ last'.beat.narrativeFunction # "resolution"]_vars

\* shouldCreateNewEpisode answered true on a ledger whose episode was just
\* started (no beat in the episode) and whose last beat is a resolution
C29_Witness ==
    /\ last.op = "shouldCreateNewEpisode"
    /\ last.result = TRUE
    /\ ledger.episodeBeatsCount = 0
    /\ ledger.currentEpisodeId # Undefined
    /\ ledger.beats # <<>>
    /\ LastBeat(ledger).narrativeFunction = "resolution"

(***************************************************************************)
(* Claims about addBeatToSession.                                          *)
(***************************************************************************)
\* the ids of the beats of the ledger of session_1 in the store (none
\* without a ledger), and the list of beat ids of the session
PersistedBeats ==
    IF manager.redis # Absent
       /\ <<"ncp:state:", "session_1">> \in DOMAIN manager.redis[1].data
    THEN LET beats == manager.redis[1].data[<<"ncp:state:", "session_1">>].json.beats
         IN  [i \in 1..Len(beats) |-> beats[i].id]
    ELSE <<>>

PersistedBeatIds ==
    IF manager.redis # Absent
       /\ <<"ncp:beats:", "session_1">> \in DOMAIN manager.redis[1].lists
    THEN manager.redis[1].lists[<<"ncp:beats:", "session_1">>]
    ELSE <<>>

\* C28, as stated: when the calls on one session never overlapped and the
\* ledger of the session was stored before the first addBeatToSession
\* call, then, no call on the session being under way, the ids of the
\* beats of the persisted ledger (the ledger a get reads) are the list
\* beats:{sessionId}, in order.
C28_SequentialCallsAgree ==
    (/\ history.alone
     /\ history.first = "stored"
     /\ \A c \in 1..Len(calls) : calls[c].sessionId # "session_1"
     /\ manager.redis # Absent
     /\ <<"ncp:state:", "session_1">> \in DOMAIN manager.redis[1].data
     /\ clock <= manager.redis[1].expiry[<<"ncp:state:", "session_1">>])
    => PersistedBeats = PersistedBeatIds

\* C28, with what the ledger must be kept from: when the calls on one
\* session never overlapped each other or a call of connect, the ledger of
\* the session was in the store before every addBeatToSession call, no key
\* of the session outlived its time to live, and the caller never called
\* saveState, then, no call on the session and no call of connect being
\* under way, the ids of the beats of the persisted ledger are the list
\* beats:{sessionId}, in order; and the beatCount of every persisted ledger
\* is the number of its beats.  (The state in which two overlapping calls
\* have lost a beat of the ledger is C28_Witness.)
C28_KeptLedgerAgrees ==
    /\ (manager.redis # Absent
        /\ <<"ncp:state:", "session_1">> \in DOMAIN manager.redis[1].data) =>
          LET state == manager.redis[1].data[<<"ncp:state:", "session_1">>].json
          IN  state.position.beatCount = Len(state.beats)
    /\ (/\ history.kept
        /\ \A c \in 1..Len(calls) :
              calls[c].sessionId # "session_1" /\ calls[c].method # "connect")
       => PersistedBeats = PersistedBeatIds

\* two addBeatToSession calls on session_1 overlapped, the ledger being
\* stored before the first: both read the stored ledger without beats, the
\* list holds both beat ids, and the persisted ledger holds the beat of one
\* call only, its beatCount being 1
C28_Witness ==
    /\ ~history.alone
    /\ history.first = "stored"
    /\ calls = <<>>
    /\ last.op = "addBeatToSession"
    /\ last.pc = "done"
    /\ last.result = TRUE
    /\ PersistedBeatIds = <<"beat_1", "beat_2">>
    /\ Len(PersistedBeats) = 1
    /\ manager.redis[1].data[<<"ncp:state:", "session_1">>].json.position.beatCount = 1

====
